---- MODULE Spec2Model ----
(***************************************************************************)
(* Universal NFT program (Solana / ZetaChain): the resilience pipeline.    *)
(*   - security/circuit_breaker.rs    CircuitBreaker                       *)
(*   - instructions/signature.rs,                                          *)
(*     instructions/cross_chain.rs,                                        *)
(*     instructions/initialize.rs     ProgramConfig nonce, NFT lock        *)
(*   - recovery/transaction_retry.rs  TransactionRetryManager              *)
(*   - recovery/error_recovery.rs     ErrorRecoveryManager                 *)
(* Each subsystem has its own specification (SpecCB, SpecMsg, SpecRetry,   *)
(* SpecRetryCap, SpecRecovery); the variables of the other subsystems stay *)
(* at their initial values.                                                *)
(***************************************************************************)
EXTENDS Integers, Sequences, FiniteSets, TLC

VARIABLES
    now,            \* Clock::get().unix_timestamp
    cb,             \* the CircuitBreaker account
    cbCall,         \* the last call on the breaker and what it returned
    openEnteredAt,  \* history: the time the breaker last went from non-Open to Open
    closedFails,    \* history: times of the record_failure calls made in the current Closed run
    halfOpenAdmitted, \* history: checks admitted in HalfOpen in the current window
    config,         \* the ProgramConfig account
    nft,            \* the UniversalNft account and its token account
    transfers,      \* the CrossChainTransfer accounts, keyed by the PDA's nonce seed
    msgCall,        \* the last instruction and what it returned
    accepted,       \* history: the nonces verify_cross_chain_message accepted, in order
    mgr,            \* the TransactionRetryManager account
    sessions,       \* the RetrySession accounts
    retryCall,      \* the last call on the retry manager and what it returned
    delays,         \* history: per session, the delays scheduled since schedule_retry
    rmgr,           \* the ErrorRecoveryManager account
    rsessions,      \* the RecoverySession accounts
    recCall,        \* the last call on the recovery manager and what it returned
    build,          \* the build profile: whether arithmetic overflow panics or wraps
    feng,           \* the FraudDetectionEngine account
    fraudCall,      \* the last call on the fraud engine, its input and what it returned
    analyzed        \* history: the fingerprints of the last analyses, oldest first

cbVars    == <<cb, cbCall, openEnteredAt, closedFails, halfOpenAdmitted>>
msgVars   == <<config, nft, transfers, msgCall, accepted>>
retryVars == <<mgr, sessions, retryCall, delays>>
recVars   == <<rmgr, rsessions, recCall, build>>
fraudVars == <<feng, fraudCall, analyzed>>
vars      == <<now, cbVars, msgVars, retryVars, recVars, fraudVars>>

\* ---------------------------------------------------------------- bounds

\* The clock runs from 0 to MaxTime.
MaxTime == 7

\* At most MaxReports successes, and as many failures, are reported in one window.
MaxReports == 3

\* The clock of the retry manager runs from 0 to MaxRetryTime.
MaxRetryTime == 34

\* SpecRetry schedules while fewer than MaxActive sessions are counted active
\* and the clock is at most MaxScheduleTime;
\* SpecRetryCap schedules up to the manager's cap, its clock running to MaxCapTime.
MaxActive == 2
MaxScheduleTime == 2
MaxCapTime == 12

\* SpecRecovery: at most MaxInitiations sessions are initiated, a manager admits
\* at most MaxRecoverySessions of them at a time, the clock runs to MaxRecoveryTime.
MaxInitiations == 2
MaxRecoverySessions == 1
MaxRecoveryTime == 1

\* SpecStats: the breaker's clock runs to MaxStatsTime.
MaxStatsTime == 3

\* SpecFraud analyzes at most MaxFraudOps operations within MaxFraudElapsed
\* seconds of the start; SpecFraudRing at most MaxRingOps within MaxRingElapsed.
MaxFraudOps == 4
MaxFraudElapsed == 20
MaxRingOps == 22
MaxRingElapsed == 60

\* The top of the nonce's range: it stands for u64::MAX, where checked_add fails.
MaxNonce == 3

\* ------------------------------------------------------- circuit breaker
\* security/circuit_breaker.rs. The methods take &mut self: what a method
\* assigns before returning Err stays assigned.

CircuitStates == {"Closed", "HalfOpen", "Open", "ManualOverride"}

\* The CircuitConfig values initialize() is given (config: Option<CircuitConfig>),
\* scaled to the clock's range; every threshold is at least 1.
CircuitConfigs ==
    { [failure_threshold |-> 2, failure_window |-> 3, min_open_duration |-> 2,
       success_threshold |-> 2, half_open_limit |-> 3],
      [failure_threshold |-> 3, failure_window |-> 4, min_open_duration |-> 5,
       success_threshold |-> 1, half_open_limit |-> 2] }

\* CircuitBreaker::initialize at time t
cb_initialize(cfg, t) ==
    [state |-> "Closed", failure_count |-> 0, success_count |-> 0,
     window_start |-> t, last_state_change |-> t, config |-> cfg]

\* A plausible slip: the window is restarted only after its last second.
update_window_strict(b, t) ==
    IF t - b.window_start > b.config.failure_window
    THEN [b EXCEPT !.window_start = t, !.failure_count = 0, !.success_count = 0]
    ELSE b

update_window(b, t) ==
    IF t - b.window_start >= b.config.failure_window
    THEN [b EXCEPT !.window_start = t, !.failure_count = 0, !.success_count = 0]
    ELSE b

should_open_circuit(b) == b.failure_count >= b.config.failure_threshold

\* A plausible slip: the failures of the window are not looked at.
should_close_circuit_ignores_failures(b) ==
    b.success_count >= b.config.success_threshold

should_close_circuit(b) ==
    b.success_count >= b.config.success_threshold /\ b.failure_count = 0

transition_to_open(b, t) ==
    [b EXCEPT !.state = "Open", !.last_state_change = t]

transition_to_half_open(b, t) ==
    [b EXCEPT !.state = "HalfOpen", !.last_state_change = t,
              !.failure_count = 0, !.success_count = 0]

\* A plausible slip: the counters are left as they were.
transition_to_closed_keeps_counts(b, t) ==
    [b EXCEPT !.state = "Closed", !.last_state_change = t]

transition_to_closed(b, t) ==
    [b EXCEPT !.state = "Closed", !.last_state_change = t,
              !.failure_count = 0, !.success_count = 0]

\* A plausible slip: the Open arm measures the elapsed time from window_start
\* instead of last_state_change.
check_operation_allowed_window(b0, t) ==
    LET b == update_window(b0, t) IN
    CASE b.state = "Closed" ->
            IF should_open_circuit(b)
            THEN [cb |-> transition_to_open(b, t), result |-> "CircuitBreakerOpen"]
            ELSE [cb |-> b, result |-> "Ok"]
      [] b.state = "HalfOpen" ->
            IF b.failure_count + b.success_count >= b.config.half_open_limit
            THEN [cb |-> b, result |-> "CircuitBreakerRateLimit"]
            ELSE IF should_close_circuit(b)
            THEN [cb |-> transition_to_closed(b, t), result |-> "Ok"]
            ELSE IF should_open_circuit(b)
            THEN [cb |-> transition_to_open(b, t), result |-> "CircuitBreakerOpen"]
            ELSE [cb |-> b, result |-> "Ok"]
      [] b.state = "Open" ->
            IF t - b.window_start >= b.config.min_open_duration
            THEN [cb |-> transition_to_half_open(b, t), result |-> "Ok"]
            ELSE [cb |-> b, result |-> "CircuitBreakerOpen"]
      [] b.state = "ManualOverride" -> [cb |-> b, result |-> "Ok"]

\* check_operation_allowed at time t: the breaker afterwards and the result
check_operation_allowed(b0, t) ==
    LET b == update_window(b0, t) IN
    CASE b.state = "Closed" ->
            IF should_open_circuit(b)
            THEN [cb |-> transition_to_open(b, t), result |-> "CircuitBreakerOpen"]
            ELSE [cb |-> b, result |-> "Ok"]
      [] b.state = "HalfOpen" ->
            IF b.failure_count + b.success_count >= b.config.half_open_limit
            THEN [cb |-> b, result |-> "CircuitBreakerRateLimit"]
            ELSE IF should_close_circuit(b)
            THEN [cb |-> transition_to_closed(b, t), result |-> "Ok"]
            ELSE IF should_open_circuit(b)
            THEN [cb |-> transition_to_open(b, t), result |-> "CircuitBreakerOpen"]
            ELSE [cb |-> b, result |-> "Ok"]
      [] b.state = "Open" ->
            IF t - b.last_state_change >= b.config.min_open_duration
            THEN [cb |-> transition_to_half_open(b, t), result |-> "Ok"]
            ELSE [cb |-> b, result |-> "CircuitBreakerOpen"]
      [] b.state = "ManualOverride" -> [cb |-> b, result |-> "Ok"]

\* success_count.saturating_add(1); the u64 ceiling is out of the clock's reach
record_success(b0, t) ==
    LET b1 == update_window(b0, t)
        b2 == [b1 EXCEPT !.success_count = @ + 1]
    IN  IF b2.state = "HalfOpen" /\ should_close_circuit(b2)
        THEN transition_to_closed(b2, t)
        ELSE b2

record_failure(b0, t) ==
    LET b1 == update_window(b0, t)
        b2 == [b1 EXCEPT !.failure_count = @ + 1]
    IN  IF should_open_circuit(b2) THEN transition_to_open(b2, t) ELSE b2

\* A plausible slip: enabling the override goes through a transition that
\* restarts the counters and the state's clock.
set_manual_override_resets(b, enabled, t) ==
    IF enabled
    THEN [b EXCEPT !.state = "ManualOverride", !.last_state_change = t,
                   !.failure_count = 0, !.success_count = 0]
    ELSE transition_to_closed(b, t)

set_manual_override(b, enabled, t) ==
    IF enabled THEN [b EXCEPT !.state = "ManualOverride"]
    ELSE transition_to_closed(b, t)

\* History kept beside a breaker call that leaves the breaker as b:
\* when Open was entered, the times of the record_failure calls made on a
\* Closed breaker since it was last Closed by a call (the last failure_threshold
\* of them; the call that opens the breaker is the last one kept), and the
\* number of checks admitted on a HalfOpen breaker since HalfOpen was entered
\* or the window was last restarted (counted up to half_open_limit + 1).
LastN(s, n) == IF Len(s) <= n THEN s ELSE SubSeq(s, Len(s) - n + 1, Len(s))

CBHistory(b, failureCall, overrideCall, admitted) ==
    /\ halfOpenAdmitted' =
          IF cb.state # "HalfOpen" \/ b.state # "HalfOpen" THEN 0
          ELSE LET before == IF b.window_start = cb.window_start
                             THEN halfOpenAdmitted ELSE 0
                   after == IF admitted THEN before + 1 ELSE before
               IN  IF after > b.config.half_open_limit
                   THEN b.config.half_open_limit + 1 ELSE after
    /\ openEnteredAt' = IF cb.state # "Open" /\ b.state = "Open" THEN now
                        ELSE openEnteredAt
    /\ closedFails' =
          IF overrideCall \/ cb.state # "Closed" THEN <<>>
          ELSE IF failureCall
               THEN LastN(Append(closedFails, now), b.config.failure_threshold)
               ELSE closedFails

CheckOperationAllowed ==
    LET r == check_operation_allowed(cb, now) IN
    /\ cb' = r.cb
    /\ cbCall' = [op |-> "check_operation_allowed", result |-> r.result]
    /\ CBHistory(r.cb, FALSE, FALSE, r.result = "Ok")
    /\ UNCHANGED <<fraudVars, recVars, now, msgVars, retryVars>>

RecordSuccess ==
    LET b == record_success(cb, now) IN
    /\ b.success_count <= MaxReports
    /\ cb' = b
    /\ cbCall' = [op |-> "record_success", result |-> "Ok"]
    /\ CBHistory(b, FALSE, FALSE, FALSE)
    /\ UNCHANGED <<fraudVars, recVars, now, msgVars, retryVars>>

RecordFailure ==
    LET b == record_failure(cb, now) IN
    /\ b.failure_count <= MaxReports
    /\ cb' = b
    /\ cbCall' = [op |-> "record_failure", result |-> "Ok"]
    /\ CBHistory(b, TRUE, FALSE, FALSE)
    /\ UNCHANGED <<fraudVars, recVars, now, msgVars, retryVars>>

SetManualOverride ==
    \E enabled \in BOOLEAN :
        LET b == set_manual_override(cb, enabled, now) IN
        /\ cb' = b
        /\ cbCall' = [op |-> "set_manual_override", enabled |-> enabled, result |-> "Ok"]
        /\ CBHistory(b, FALSE, TRUE, FALSE)
        /\ UNCHANGED <<fraudVars, recVars, now, msgVars, retryVars>>

\* The clock advances between calls.
CBTick ==
    /\ now < MaxTime
    /\ now' = now + 1
    /\ cbCall' = [op |-> "tick", result |-> "Ok"]
    /\ UNCHANGED <<fraudVars, recVars, cb, openEnteredAt, closedFails, halfOpenAdmitted, msgVars, retryVars>>

\* ------------------------------------------- configuration, nonce, NFT lock
\* instructions/initialize.rs, signature.rs, cross_chain.rs, transfer.rs, utils.rs.
\* An instruction that returns Err leaves every account as it was (the runtime
\* discards a failed instruction's writes): each operator below returns the
\* accounts afterwards and the result, the accounts unchanged unless the result is Ok.

\* A Pubkey is <<its first 20 bytes, its last 12 bytes>>, each as a number.
DefaultPubkey == <<0, 0>>
Pubkeys == {DefaultPubkey, <<1, 0>>, <<2, 1>>}
Authority == "authority"
Users == {"alice", "bob"}
Mints == {1}

\* An Option: None, or Some(v)
None == <<>>
Some(v) == <<v>>

\* What secp256k1_recover followed by pubkey_to_ethereum_address gives for a
\* (message hash, signature, recovery id): no key (None), or a 20-byte address.
\* No signature recovers to the all-zero address.
Recovered == {None, Some(1), Some(2)}

pubkey_to_eth_address(pubkey) == pubkey[1]

\* A plausible slip: a mismatch is reported as an error, like a failed recovery.
verify_ecdsa_signature_errs_on_mismatch(recovered, expected_signer) ==
    IF recovered = None \/ recovered[1] # expected_signer
    THEN [ok |-> FALSE, is_valid |-> FALSE]
    ELSE [ok |-> TRUE, is_valid |-> TRUE]

\* SignatureUtils::verify_ecdsa_signature, recovery given:
\* Err(PublicKeyRecoveryFailed) or Ok(is_valid)
verify_ecdsa_signature(recovered, expected_signer) ==
    IF recovered = None THEN [ok |-> FALSE, is_valid |-> FALSE]
    ELSE [ok |-> TRUE, is_valid |-> (recovered[1] = expected_signer)]

SUPPORTED_CHAINS == {7000, 7001, 1, 5, 56, 97}
validate_chain_id(chain_id) == chain_id \in SUPPORTED_CHAINS
validate_recipient(recipient) == Len(recipient) \in {20, 32}
MIN_GAS_LIMIT == 21000
MAX_GAS_LIMIT == 10000000
validate_gas_limit(gas_limit) == gas_limit >= MIN_GAS_LIMIT /\ gas_limit <= MAX_GAS_LIMIT

\* Inputs
Bytes(n) == [i \in 1..n |-> 1]
ChainIds == {7000, 900}
Recipients == {Bytes(20), Bytes(32), Bytes(19)}
GasLimits == {20999, 21000, 10000000, 10000001}

\* instructions::initialize
msg_initialize(gateway_authority) ==
    [authority |-> Authority, gateway_authority |-> gateway_authority,
     tss_authority |-> DefaultPubkey, nonce |-> 0, is_paused |-> FALSE]

\* instructions::update_config
update_config(c, signer, new_gateway_authority, new_tss_authority, paused) ==
    IF signer # c.authority THEN [config |-> c, result |-> "Unauthorized"]
    ELSE IF new_gateway_authority # None /\ new_gateway_authority[1] = DefaultPubkey
    THEN [config |-> c, result |-> "InvalidGatewayAuthority"]
    ELSE [config |->
            [c EXCEPT !.gateway_authority =
                          IF new_gateway_authority # None THEN new_gateway_authority[1] ELSE @,
                      !.tss_authority =
                          IF new_tss_authority # None THEN new_tss_authority[1] ELSE @,
                      !.is_paused = IF paused # None THEN paused[1] ELSE @],
          result |-> "Ok"]

\* A plausible slip: the replay check lets the current nonce through (>= for >).
verify_cross_chain_message_replay(c, nonce, chain_id, recipient, recovered) ==
    LET verdict == verify_ecdsa_signature(recovered, pubkey_to_eth_address(c.tss_authority)) IN
    IF c.is_paused THEN [config |-> c, result |-> "ProgramPaused"]
    ELSE IF ~(nonce >= c.nonce) THEN [config |-> c, result |-> "NonceMismatch"]
    ELSE IF ~validate_chain_id(chain_id) THEN [config |-> c, result |-> "InvalidChainId"]
    ELSE IF ~validate_recipient(recipient) THEN [config |-> c, result |-> "InvalidRecipient"]
    ELSE IF ~verdict.ok THEN [config |-> c, result |-> "PublicKeyRecoveryFailed"]
    ELSE IF ~verdict.is_valid THEN [config |-> c, result |-> "InvalidTssSignature"]
    ELSE [config |-> [c EXCEPT !.nonce = nonce], result |-> "Ok"]

\* instructions::verify_cross_chain_message
verify_cross_chain_message(c, nonce, chain_id, recipient, recovered) ==
    LET verdict == verify_ecdsa_signature(recovered, pubkey_to_eth_address(c.tss_authority)) IN
    IF c.is_paused THEN [config |-> c, result |-> "ProgramPaused"]
    ELSE IF ~(nonce > c.nonce) THEN [config |-> c, result |-> "NonceMismatch"]
    ELSE IF ~validate_chain_id(chain_id) THEN [config |-> c, result |-> "InvalidChainId"]
    ELSE IF ~validate_recipient(recipient) THEN [config |-> c, result |-> "InvalidRecipient"]
    ELSE IF ~verdict.ok THEN [config |-> c, result |-> "PublicKeyRecoveryFailed"]
    ELSE IF ~verdict.is_valid THEN [config |-> c, result |-> "InvalidTssSignature"]
    ELSE [config |-> [c EXCEPT !.nonce = nonce], result |-> "Ok"]

\* instructions::verify_signature: reads the configuration only
verify_signature(c, recovered) ==
    LET verdict == verify_ecdsa_signature(recovered, pubkey_to_eth_address(c.tss_authority)) IN
    IF c.is_paused THEN "ProgramPaused"
    ELSE IF c.tss_authority = DefaultPubkey THEN "InvalidTssSignature"
    ELSE IF ~verdict.ok THEN "PublicKeyRecoveryFailed"
    ELSE IF ~verdict.is_valid THEN "InvalidTssSignature"
    ELSE "Ok"

\* u64::to_le_bytes, for the values below 2^31 the inputs use
to_le_bytes(x) ==
    <<x % 256, (x \div 256) % 256, (x \div 65536) % 256, (x \div 16777216) % 256,
      0, 0, 0, 0>>

\* SignatureUtils::hash_message: the bytes the hasher is updated with, in
\* order. Sha256 is taken to be collision-free, so the digest stands for them.
hash_message(nonce, chain_id, recipient, amount, data) ==
    to_le_bytes(nonce) \o to_le_bytes(chain_id) \o recipient \o to_le_bytes(amount) \o data

\* Messages given to hash_message: recipients of 20 and of 32 bytes, data of
\* 13 bytes, of one byte and empty
Messages ==
    [nonce : {1, 2}, chain_id : {7000, 1},
     recipient : {Bytes(20), Bytes(32),
                  Bytes(20) \o to_le_bytes(100) \o <<2, 2, 2, 2>>},
     amount : {100, 5},
     data : {<<2, 2, 2, 2>> \o to_le_bytes(100) \o <<3>>, <<3>>, <<>>}]

\* The largest batch batch_verify_signatures takes
MAX_BATCH_SIZE == 10

\* Inputs of batch_verify_signatures: what recovery gives for each entry of
\* `messages` (with its signature and recovery id), and the lengths of
\* `signatures` and `recovery_ids`. A batch recovers to one address throughout,
\* but for at most one entry.
BatchLens == {0, 1, 2, MAX_BATCH_SIZE, MAX_BATCH_SIZE + 1}
Batches ==
    UNION { { [i \in 1..n |-> IF i = odd THEN other ELSE Some(address)] :
                address \in {1, 2}, odd \in 0..n, other \in Recovered } : n \in BatchLens }
\* <<Len(signatures), Len(recovery_ids)>> for n messages
OtherLens(n) ==
    {<<n, n>>, <<n + 1, n>>, <<n, n + 1>>} \cup (IF n > 0 THEN {<<n - 1, n - 1>>} ELSE {})

\* The loop of batch_verify_signatures from entry i on: the first error, or Ok
RECURSIVE verify_each(_, _, _)
verify_each(recovered, expected_signer, i) ==
    IF i > Len(recovered) THEN "Ok"
    ELSE LET verdict == verify_ecdsa_signature(recovered[i], expected_signer) IN
         IF ~verdict.ok THEN "PublicKeyRecoveryFailed"
         ELSE IF ~verdict.is_valid THEN "InvalidTssSignature"
         ELSE verify_each(recovered, expected_signer, i + 1)

\* instructions::batch_verify_signatures: reads the configuration only.
\* messages_len is Len(recovered).
batch_verify_signatures(c, recovered, signatures_len, recovery_ids_len) ==
    IF c.is_paused THEN "ProgramPaused"
    ELSE IF ~(Len(recovered) = signatures_len /\ Len(recovered) = recovery_ids_len)
    THEN "InvalidMessageFormat"
    ELSE IF ~(Len(recovered) <= MAX_BATCH_SIZE) THEN "InvalidMessageFormat"
    ELSE verify_each(recovered, pubkey_to_eth_address(c.tss_authority), 1)

\* instructions::burn_and_transfer by `owner` on the NFT of `mint`.
\* gatewayOk: whether the gateway program's invoke succeeds.
burn_and_transfer(c, n, t, owner, mint, destination_chain_id, recipient, gas_limit, gatewayOk) ==
    LET same(r) == [config |-> c, nft |-> n, transfers |-> t, result |-> r]
        seed == <<mint, c.nonce>>
    IN
    IF seed \in DOMAIN t THEN same("AccountAlreadyInUse")          \* #[account(init)]
    ELSE IF c.is_paused THEN same("ProgramPaused")
    ELSE IF ~validate_chain_id(destination_chain_id) THEN same("InvalidChainId")
    ELSE IF ~validate_recipient(recipient) THEN same("InvalidRecipient")
    ELSE IF ~validate_gas_limit(gas_limit) THEN same("InsufficientGasLimit")
    ELSE IF n[mint].is_locked THEN same("NftLocked")
    ELSE IF n[mint].owner # owner THEN same("InvalidNftOwner")
    ELSE IF c.nonce = MaxNonce THEN same("ArithmeticOverflow")     \* checked_add(1)
    ELSE IF n[mint].token_amount[owner] < 1 THEN same("InsufficientTokens") \* token::burn
    ELSE IF Len(recipient) # 32 THEN same("InvalidRecipient")      \* try_into [u8; 32]
    ELSE IF ~gatewayOk THEN same("GatewayCallFailed")              \* invoke
    ELSE [config |-> [c EXCEPT !.nonce = @ + 1],
          nft |-> [n EXCEPT ![mint].is_locked = TRUE,
                            ![mint].token_amount[owner] = @ - 1],
          transfers |-> [s \in DOMAIN t \cup {seed} |->
                          IF s = seed
                          THEN [nft_mint |-> mint, source_chain_id |-> 900,
                                destination_chain_id |-> destination_chain_id,
                                recipient |-> recipient, gas_limit |-> gas_limit,
                                nonce |-> c.nonce + 1, timestamp |-> now,
                                status |-> "Initiated"]
                          ELSE t[s]],
          result |-> "Ok"]

\* instructions::on_revert on the transfer account `seed` and the NFT of `mint`
\* (the accounts are not tied to each other)
on_revert(c, n, t, seed, mint) ==
    IF c.is_paused THEN [nft |-> n, transfers |-> t, result |-> "ProgramPaused"]
    ELSE IF t[seed].status # "Processing"
    THEN [nft |-> n, transfers |-> t, result |-> "InvalidTransferStatus"]
    ELSE [nft |-> [n EXCEPT ![mint].is_locked = FALSE],
          transfers |-> [t EXCEPT ![seed].status = "Reverted"],
          result |-> "Ok"]

\* instructions::transfer_nft from current_owner to new_owner
transfer_nft(c, n, mint, current_owner, new_owner) ==
    IF c.is_paused THEN [nft |-> n, result |-> "ProgramPaused"]
    ELSE IF n[mint].is_locked THEN [nft |-> n, result |-> "NftLocked"]
    ELSE IF n[mint].owner # current_owner THEN [nft |-> n, result |-> "InvalidNftOwner"]
    ELSE IF n[mint].token_amount[current_owner] < 1
    THEN [nft |-> n, result |-> "InsufficientTokens"]               \* token::transfer
    ELSE [nft |-> [n EXCEPT ![mint].owner = new_owner,
                            ![mint].token_amount =
                                IF new_owner = current_owner THEN @
                                ELSE [@ EXCEPT ![current_owner] = @ - 1,
                                               ![new_owner] = @ + 1]],
          result |-> "Ok"]

UpdateConfig ==
    \E signer \in {Authority, "alice"},
       gateway \in {None, Some(DefaultPubkey)},
       tss \in {None} \cup {Some(k) : k \in Pubkeys},
       paused \in {None, Some(TRUE), Some(FALSE)} :
        LET r == update_config(config, signer, gateway, tss, paused) IN
        /\ config' = r.config
        /\ msgCall' = [op |-> "update_config", result |-> r.result, nonce |-> 0]
        /\ UNCHANGED <<fraudVars, recVars, nft, transfers, accepted, now, cbVars, retryVars>>

VerifyCrossChainMessage ==
    \E nonce \in 0..MaxNonce, chain_id \in ChainIds, recipient \in Recipients,
       recovered \in Recovered :
        LET r == verify_cross_chain_message(config, nonce, chain_id, recipient, recovered) IN
        /\ config' = r.config
        /\ msgCall' = [op |-> "verify_cross_chain_message", result |-> r.result,
                       nonce |-> nonce]
        /\ accepted' = IF r.result = "Ok" THEN Append(accepted, nonce) ELSE accepted
        /\ UNCHANGED <<fraudVars, recVars, nft, transfers, now, cbVars, retryVars>>

VerifySignature ==
    \E recovered \in Recovered :
        /\ msgCall' = [op |-> "verify_signature", result |-> verify_signature(config, recovered),
                       nonce |-> 0, recovered |-> recovered]
        /\ UNCHANGED <<fraudVars, recVars, config, nft, transfers, accepted, now, cbVars, retryVars>>

\* hash_message applied to a message; the call before it is kept beside it.
HashMessage ==
    \E m \in Messages :
        /\ msgCall' = [op |-> "hash_message", result |-> "Ok", nonce |-> 0,
                       message |-> m,
                       hash |-> hash_message(m.nonce, m.chain_id, m.recipient,
                                             m.amount, m.data),
                       previous |-> IF msgCall.op = "hash_message"
                                    THEN Some([message |-> msgCall.message,
                                               hash |-> msgCall.hash])
                                    ELSE None]
        /\ UNCHANGED <<fraudVars, recVars, config, nft, transfers, accepted, now,
                       cbVars, retryVars>>

BatchVerifySignatures ==
    \E recovered \in Batches :
        \E lens \in OtherLens(Len(recovered)) :
            LET signatures_len == lens[1]
                recovery_ids_len == lens[2]
            IN
            /\ msgCall' = [op |-> "batch_verify_signatures",
                           result |-> batch_verify_signatures(config, recovered,
                                                              signatures_len, recovery_ids_len),
                           nonce |-> 0, recovered |-> recovered,
                           signatures_len |-> signatures_len,
                           recovery_ids_len |-> recovery_ids_len]
            /\ UNCHANGED <<fraudVars, recVars, config, nft, transfers, accepted, now, cbVars, retryVars>>

\* burn_and_transfer; `recorded`: whether the call's arguments are kept beside
\* its result
BurnAndTransferAs(recorded) ==
    \E owner \in Users, mint \in Mints, chain_id \in ChainIds, recipient \in Recipients,
       gas_limit \in GasLimits, gatewayOk \in BOOLEAN :
        LET r == burn_and_transfer(config, nft, transfers, owner, mint, chain_id,
                                   recipient, gas_limit, gatewayOk) IN
        /\ config' = r.config
        /\ nft' = r.nft
        /\ transfers' = r.transfers
        /\ msgCall' =
              IF recorded
              THEN [op |-> "burn_and_transfer", result |-> r.result, nonce |-> 0,
                    owner |-> owner, mint |-> mint,
                    destination_chain_id |-> chain_id, recipient |-> recipient,
                    gas_limit |-> gas_limit, gatewayOk |-> gatewayOk]
              ELSE [op |-> "burn_and_transfer", result |-> r.result, nonce |-> 0]
        /\ UNCHANGED <<fraudVars, recVars, accepted, now, cbVars, retryVars>>

BurnAndTransfer == BurnAndTransferAs(FALSE)

BurnAndTransferRecorded == BurnAndTransferAs(TRUE)

OnRevert ==
    \E seed \in DOMAIN transfers, mint \in Mints :
        LET r == on_revert(config, nft, transfers, seed, mint) IN
        /\ nft' = r.nft
        /\ transfers' = r.transfers
        /\ msgCall' = [op |-> "on_revert", result |-> r.result, nonce |-> 0]
        /\ UNCHANGED <<fraudVars, recVars, config, accepted, now, cbVars, retryVars>>

TransferNft ==
    \E mint \in Mints, current_owner \in Users, new_owner \in Users :
        LET r == transfer_nft(config, nft, mint, current_owner, new_owner) IN
        /\ nft' = r.nft
        /\ msgCall' = [op |-> "transfer_nft", result |-> r.result, nonce |-> 0]
        /\ UNCHANGED <<fraudVars, recVars, config, transfers, accepted, now, cbVars, retryVars>>

\* ------------------------------------------------------------ retry manager
\* recovery/transaction_retry.rs

\* The RetrySession accounts; a session exists once schedule_retry has filled it.
SessionAccounts == {"s1", "s2"}

RetryFailureReasons ==
    {"NetworkTimeout", "InsufficientComputeUnits", "InsufficientPriorityFee",
     "BlockhashExpired", "AccountNotFound", "InsufficientFunds", "SimulationFailed",
     "NodeOverloaded", "UnknownError"}

\* impl Default for RetryConfig
DefaultRetryConfig ==
    [max_attempts |-> 5, initial_delay_seconds |-> 2, backoff_multiplier_bps |-> 20000,
     max_delay_seconds |-> 60, jitter_percentage_bps |-> 1000]

\* Inputs of schedule_retry. Each session account has its session id: 95 never
\* succeeds (95 % 100 >= 90), 45 fails its first attempt and succeeds at the second.
SessionIdOf == [a \in SessionAccounts |-> IF a = "s1" THEN 95 ELSE 45]
ScheduleReasons == {"NodeOverloaded", "BlockhashExpired"}
\* The configuration initialize() is given: three attempts, 2 s, 2.0x
ManagerConfig == [DefaultRetryConfig EXCEPT !.max_attempts = 3]
CustomConfigs == {None, Some([DefaultRetryConfig EXCEPT !.max_attempts = 0])}
\* The configurations update_retry_config is given
NewConfigs == {ManagerConfig, [DefaultRetryConfig EXCEPT !.max_attempts = 2]}

MAX_CONCURRENT_SESSIONS == 20

\* TransactionRetryManager::initialize
retry_initialize(cfg) ==
    [total_retry_attempts |-> 0, successful_retries |-> 0, failed_retries |-> 0,
     active_retry_sessions |-> 0, max_concurrent_sessions |-> MAX_CONCURRENT_SESSIONS,
     default_config |-> cfg, adaptive_retry_enabled |-> TRUE, last_retry_attempt |-> 0]

\* NetworkConditionAnalyzer::analyze_conditions: a fixed snapshot
analyze_conditions ==
    [congestion_level |-> "Medium", network_stability_score |-> 85]

\* floor(sqrt(x)), known to lie in lo..hi
RECURSIVE ISqrt(_, _, _)
ISqrt(x, lo, hi) ==
    IF lo >= hi THEN lo
    ELSE LET mid == (lo + hi + 1) \div 2 IN
         IF mid * mid <= x THEN ISqrt(x, mid, hi) ELSE ISqrt(x, lo, mid - 1)

\* NetworkConditionAnalyzer::calculate_optimal_parameters, the delay:
\* ((base_delay * delay_multiplier) * attempt_number^1.5) as u32.
\* With m2 = 2 * delay_multiplier this is floor(sqrt((base * m2)^2 * n^3 / 4)).
calculate_optimal_parameters(conditions, failure_reason, attempt_number) ==
    LET base_delay == CASE conditions.congestion_level = "Low" -> 2
                        [] conditions.congestion_level = "Medium" -> 5
                        [] conditions.congestion_level = "High" -> 10
                        [] conditions.congestion_level = "Critical" -> 20
        m2 == CASE failure_reason = "NetworkTimeout" -> 4
                [] failure_reason = "NodeOverloaded" -> 6
                [] failure_reason = "BlockhashExpired" -> 1
                [] OTHER -> 3
        n == attempt_number
    IN  [delay_seconds |-> ISqrt(((base_delay * m2) * (base_delay * m2) * n * n * n) \div 4,
                                 0, base_delay * m2 * n * n),
         should_refresh_blockhash |-> (failure_reason = "BlockhashExpired"),
         should_switch_endpoint |-> (conditions.network_stability_score < 50)]

RECURSIVE Pow(_, _)
Pow(b, e) == IF e = 0 THEN 1 ELSE b * Pow(b, e - 1)
RECURSIVE Gcd(_, _)
Gcd(a, b) == IF b = 0 THEN a ELSE Gcd(b, a % b)
Min(a, b) == IF a <= b THEN a ELSE b

\* calculate_exponential_backoff_delay:
\* capped = min(initial * (bps/10000)^(attempt-1), max_delay);
\* (capped + (session_id % 1000)/1000 * capped * jitter_bps/10000) as i64.
\* The multiplier is the fraction p/q in lowest terms; for attempt 0 the power is 1/multiplier.
calculate_exponential_backoff_delay(session) ==
    LET c == session.retry_config
        g == Gcd(c.backoff_multiplier_bps, 10000)
        p == c.backoff_multiplier_bps \div g
        q == 10000 \div g
        a == session.current_attempt
        num == IF a >= 1 THEN c.initial_delay_seconds * Pow(p, a - 1)
               ELSE c.initial_delay_seconds * q
        den == IF a >= 1 THEN Pow(q, a - 1) ELSE p
        capped_num == IF den = 0 THEN c.max_delay_seconds       \* division by 0.0: +inf
                      ELSE IF num >= c.max_delay_seconds * den
                      THEN c.max_delay_seconds * den ELSE num
        capped_den == IF den = 0 THEN 1 ELSE den
        k == session.session_id % 1000
    IN  (capped_num * (10000000 + k * c.jitter_percentage_bps))
            \div (capped_den * 10000000)

\* A plausible slip: a failed attempt is reported as having cost nothing.
simulate_retry_attempt_free_failure(session) ==
    LET threshold == CASE session.current_attempt = 1 -> 30
                       [] session.current_attempt = 2 -> 60
                       [] session.current_attempt = 3 -> 80
                       [] OTHER -> 90
        is_successful == (session.session_id % 100) < threshold
        failure_reasons == <<"NetworkTimeout", "InsufficientComputeUnits",
                             "NodeOverloaded", "BlockhashExpired">>
        failure_idx == (session.session_id + session.current_attempt) % 4
    IN  IF is_successful
        THEN [result |-> "Success", tx_signature |-> <<"retry_success_", session.session_id>>,
              failure_reason |-> None, compute_units_used |-> 180000, fees_spent |-> 5000,
              optimization_applied |->
                  Some([optimization_type |-> "ComputeUnitIncrease",
                        before_value |-> 150000, after_value |-> 180000,
                        applied_at_attempt |-> session.current_attempt,
                        was_successful |-> TRUE])]
        ELSE [result |-> "Failed", tx_signature |-> <<>>,
              failure_reason |-> Some(failure_reasons[failure_idx + 1]),
              compute_units_used |-> 0, fees_spent |-> 0,
              optimization_applied |-> None]

\* simulate_retry_attempt: success and failure reason are fixed by session_id
\* and the attempt number ((session_id % 100) / 100.0 < success_probability).
simulate_retry_attempt(session) ==
    LET threshold == CASE session.current_attempt = 1 -> 30
                       [] session.current_attempt = 2 -> 60
                       [] session.current_attempt = 3 -> 80
                       [] OTHER -> 90
        is_successful == (session.session_id % 100) < threshold
        failure_reasons == <<"NetworkTimeout", "InsufficientComputeUnits",
                             "NodeOverloaded", "BlockhashExpired">>
        failure_idx == (session.session_id + session.current_attempt) % 4
    IN  IF is_successful
        THEN [result |-> "Success", tx_signature |-> <<"retry_success_", session.session_id>>,
              failure_reason |-> None, compute_units_used |-> 180000, fees_spent |-> 5000,
              optimization_applied |->
                  Some([optimization_type |-> "ComputeUnitIncrease",
                        before_value |-> 150000, after_value |-> 180000,
                        applied_at_attempt |-> session.current_attempt,
                        was_successful |-> TRUE])]
        ELSE [result |-> "Failed", tx_signature |-> <<>>,
              failure_reason |-> Some(failure_reasons[failure_idx + 1]),
              compute_units_used |-> 50000, fees_spent |-> 2000,
              optimization_applied |-> None]

\* A plausible slip: the session is put back to Scheduled with its old time.
schedule_next_retry_keeps_time(m, session, failure_reason, t) ==
    [session EXCEPT !.status = "Scheduled"]

\* schedule_next_retry at time t: the session afterwards
schedule_next_retry(m, session, failure_reason, t) ==
    LET delay == IF m.adaptive_retry_enabled /\ failure_reason # None
                 THEN calculate_optimal_parameters(analyze_conditions, failure_reason[1],
                                                   session.current_attempt).delay_seconds
                 ELSE calculate_exponential_backoff_delay(session)
    IN  [session EXCEPT !.next_retry_at = t + delay, !.status = "Scheduled"]

\* schedule_retry's admission: require!(active_retry_sessions < max_concurrent_sessions)
\* A plausible slip: <= for <.
schedule_retry_admits_off_by_one(m) ==
    m.active_retry_sessions <= m.max_concurrent_sessions

schedule_retry_admits(m) ==
    m.active_retry_sessions < m.max_concurrent_sessions

\* schedule_retry at time t: the manager and the session account afterwards.
\* `old` is the account's content before (None when the session is new).
schedule_retry(m, old, session_id, failure_reason, custom_config, t) ==
    IF ~schedule_retry_admits(m)
    THEN [mgr |-> m, session |-> old, result |-> "InvalidTransferStatus"]
    ELSE
    LET cfg == IF custom_config = None THEN m.default_config ELSE custom_config[1]
        initial_delay ==
            IF m.adaptive_retry_enabled
            THEN calculate_optimal_parameters(analyze_conditions, failure_reason, 1).delay_seconds
            ELSE cfg.initial_delay_seconds
    IN  [mgr |-> [m EXCEPT !.active_retry_sessions = @ + 1],
         session |-> Some(
            [session_id |-> session_id, retry_config |-> cfg, current_attempt |-> 0,
             status |-> "Scheduled", failure_reasons |-> <<failure_reason>>,
             started_at |-> t, last_attempt_at |-> 0, next_retry_at |-> t + initial_delay,
             total_retry_time |-> 0, total_compute_units |-> 0, total_fees_spent |-> 0,
             successful_tx_signature |-> None, optimizations_applied |-> <<>>]),
         result |-> "Ok"]

\* execute_retry_attempt's three require! lines
\* A plausible slip: the attempt bound is not checked.
execute_retry_attempt_admits_unbounded(session, t) ==
    /\ session.status = "Scheduled"
    /\ t >= session.next_retry_at

\* A plausible slip: the schedule is not checked.
execute_retry_attempt_admits_early(session, t) ==
    /\ session.status = "Scheduled"
    /\ session.current_attempt < session.retry_config.max_attempts

execute_retry_attempt_admits(session, t) ==
    /\ session.status = "Scheduled"
    /\ t >= session.next_retry_at
    /\ session.current_attempt < session.retry_config.max_attempts

saturating_sub(x, y) == IF x >= y THEN x - y ELSE 0

\* execute_retry_attempt at time t: the manager and the session afterwards
execute_retry_attempt(m, session, t) ==
    IF ~execute_retry_attempt_admits(session, t)
    THEN [mgr |-> m, session |-> session, result |-> "InvalidTransferStatus"]
    ELSE
    LET s1 == [session EXCEPT !.current_attempt = @ + 1, !.status = "InProgress",
                              !.last_attempt_at = t]
        m1 == [m EXCEPT !.total_retry_attempts = @ + 1, !.last_retry_attempt = t]
        ar == simulate_retry_attempt(s1)
        s1f == [s1 EXCEPT !.failure_reasons =
                   IF ar.failure_reason # None THEN Append(@, ar.failure_reason[1]) ELSE @]
        exhausted == s1f.current_attempt >= s1f.retry_config.max_attempts
        s2 == IF ar.result = "Success"
              THEN [s1 EXCEPT !.status = "Successful",
                              !.successful_tx_signature = Some(ar.tx_signature)]
              ELSE IF exhausted THEN [s1f EXCEPT !.status = "Failed"]
              ELSE schedule_next_retry(m1, s1f, ar.failure_reason, t)
        m2 == IF ar.result = "Success"
              THEN [m1 EXCEPT !.successful_retries = @ + 1,
                              !.active_retry_sessions = saturating_sub(@, 1)]
              ELSE IF exhausted
              THEN [m1 EXCEPT !.failed_retries = @ + 1,
                              !.active_retry_sessions = saturating_sub(@, 1)]
              ELSE m1
        s3 == [s2 EXCEPT !.total_compute_units = @ + ar.compute_units_used,
                         !.total_fees_spent = @ + ar.fees_spent,
                         !.optimizations_applied =
                             IF ar.optimization_applied # None
                             THEN Append(@, ar.optimization_applied[1]) ELSE @]
    IN  [mgr |-> m2, session |-> s3, result |-> "Ok"]

\* A plausible slip: the cancelled session stays counted as active.
cancel_retry_session_keeps_active(m, session) ==
    IF ~(session.status = "Scheduled" \/ session.status = "Paused")
    THEN [mgr |-> m, session |-> session, result |-> "InvalidTransferStatus"]
    ELSE [mgr |-> m,
          session |-> [session EXCEPT !.status = "Cancelled"],
          result |-> "Ok"]

\* A plausible slip: Successful is taken for a status that can still be cancelled.
cancel_retry_session_after_success(m, session) ==
    IF ~(session.status = "Scheduled" \/ session.status = "Successful")
    THEN [mgr |-> m, session |-> session, result |-> "InvalidTransferStatus"]
    ELSE [mgr |-> [m EXCEPT !.active_retry_sessions = saturating_sub(@, 1)],
          session |-> [session EXCEPT !.status = "Cancelled"],
          result |-> "Ok"]

\* cancel_retry_session
cancel_retry_session(m, session) ==
    IF ~(session.status = "Scheduled" \/ session.status = "Paused")
    THEN [mgr |-> m, session |-> session, result |-> "InvalidTransferStatus"]
    ELSE [mgr |-> [m EXCEPT !.active_retry_sessions = saturating_sub(@, 1)],
          session |-> [session EXCEPT !.status = "Cancelled"],
          result |-> "Ok"]

\* update_retry_config
update_retry_config(m, new_config) == [m EXCEPT !.default_config = new_config]

ScheduleRetryOn(accounts) ==
    \E a \in accounts, failure_reason \in ScheduleReasons, custom_config \in CustomConfigs :
        LET old == IF a \in DOMAIN sessions THEN Some(sessions[a]) ELSE None
            r == schedule_retry(mgr, old, SessionIdOf[a], failure_reason, custom_config, now)
        IN  /\ mgr' = r.mgr
            /\ sessions' = IF r.session = None THEN sessions
                           ELSE [x \in DOMAIN sessions \cup {a} |->
                                    IF x = a THEN r.session[1] ELSE sessions[x]]
            /\ delays' = IF r.result = "Ok"
                         THEN [x \in DOMAIN sessions \cup {a} |->
                                  IF x = a THEN <<r.session[1].next_retry_at - now>>
                                  ELSE delays[x]]
                         ELSE delays
            /\ retryCall' = [op |-> "schedule_retry", session |-> a, result |-> r.result]
            /\ UNCHANGED <<fraudVars, recVars, now, cbVars, msgVars>>

ScheduleRetry ==
    /\ mgr.active_retry_sessions < MaxActive
    /\ now <= MaxScheduleTime
    /\ ScheduleRetryOn(SessionAccounts)

ScheduleRetryToCap == ScheduleRetryOn({"s1"})

ExecuteRetryAttempt ==
    \E a \in DOMAIN sessions :
        LET r == execute_retry_attempt(mgr, sessions[a], now) IN
        /\ mgr' = r.mgr
        /\ sessions' = [sessions EXCEPT ![a] = r.session]
        /\ delays' = IF r.result = "Ok" /\ r.session.status = "Scheduled"
                     THEN [delays EXCEPT ![a] = Append(@, r.session.next_retry_at - now)]
                     ELSE delays
        /\ retryCall' = [op |-> "execute_retry_attempt", session |-> a, result |-> r.result]
        /\ UNCHANGED <<fraudVars, recVars, now, cbVars, msgVars>>

CancelRetrySession ==
    \E a \in DOMAIN sessions :
        LET r == cancel_retry_session(mgr, sessions[a]) IN
        /\ mgr' = r.mgr
        /\ sessions' = [sessions EXCEPT ![a] = r.session]
        /\ retryCall' = [op |-> "cancel_retry_session", session |-> a, result |-> r.result]
        /\ UNCHANGED <<fraudVars, recVars, delays, now, cbVars, msgVars>>

UpdateRetryConfig ==
    \E new_config \in NewConfigs :
        /\ mgr' = update_retry_config(mgr, new_config)
        /\ retryCall' = [op |-> "update_retry_config", session |-> "none", result |-> "Ok"]
        /\ UNCHANGED <<fraudVars, recVars, sessions, delays, now, cbVars, msgVars>>

\* The clock advances to the time some session is due.
TickTo(limit) ==
    \E a \in DOMAIN sessions :
        /\ now < sessions[a].next_retry_at
        /\ sessions[a].next_retry_at <= limit
        /\ now' = sessions[a].next_retry_at
        /\ retryCall' = [op |-> "tick", session |-> a, result |-> "Ok"]
        /\ UNCHANGED <<fraudVars, recVars, mgr, sessions, delays, cbVars, msgVars>>

RetryTick == TickTo(MaxRetryTime)

CapTick == TickTo(MaxCapTime)

\* --------------------------------------------------------- error recovery
\* recovery/error_recovery.rs

\* A u64 is four 16-bit limbs, least significant first.
U64(l0, l1, l2, l3) == <<l0, l1, l2, l3>>

\* x * 2 in full: five limbs, the last one the carry out of bit 63
U64Twice(x) ==
    LET v1 == 2 * x[1]
        v2 == 2 * x[2] + (v1 \div 65536)
        v3 == 2 * x[3] + (v2 \div 65536)
        v4 == 2 * x[4] + (v3 \div 65536)
    IN  <<v1 % 65536, v2 % 65536, v3 % 65536, v4 % 65536, v4 \div 65536>>

\* x / 2 (integer division)
U64Half(x) ==
    <<(x[1] + 65536 * (x[2] % 2)) \div 2, (x[2] + 65536 * (x[3] % 2)) \div 2,
      (x[3] + 65536 * (x[4] % 2)) \div 2, x[4] \div 2>>

\* a u64 as a five-limb number
U64Widen(x) == <<x[1], x[2], x[3], x[4], 0>>

ErrorTypes ==
    {"TransactionFailed", "NetworkTimeout", "InsufficientFunds", "AccountNotFound",
     "InvalidSignature", "ComputeExceeded", "CrossChainTimeout", "GatewayUnavailable",
     "StateCorruption", "ConcurrencyConflict", "SecurityViolation", "SystemOverload"}

RecoveryResults ==
    {"FullRecovery", "PartialRecovery", "CompensatedFailure", "UnrecoverableFailure"}

\* Inputs of initiate_recovery. One session account, initiated again and again.
\* Session id 3 passes every strategy's test on session_id % 10, 9 fails every one.
RecoveryAccounts == {"r1"}
RecoverySessionIds == {3, 9}
\* fees_paid: 5001, 2^63 - 1, 2^63, 2^64 - 1
FeeValues ==
    {U64(5001, 0, 0, 0), U64(65535, 65535, 65535, 32767),
     U64(0, 0, 0, 32768), U64(65535, 65535, 65535, 65535)}
\* The operation contexts sessions are initiated with
OperationContexts ==
    { [compute_units_used |-> 0, fees_paid |-> U64(5001, 0, 0, 0)],
      [compute_units_used |-> 150001, fees_paid |-> U64(0, 0, 0, 32768)] }

\* ErrorRecoveryManager::initialize at time t
rec_initialize(cfg, t) ==
    [total_recovery_attempts |-> 0, successful_recoveries |-> 0, failed_recoveries |-> 0,
     active_recovery_sessions |-> 0, max_concurrent_sessions |-> cfg.max_concurrent_sessions,
     recovery_success_rate_bps |-> 10000, auto_recovery_enabled |-> cfg.auto_recovery_enabled,
     aggressive_mode |-> cfg.aggressive_mode, last_recovery_attempt |-> 0,
     stats_reset_at |-> t]

determine_recovery_strategy(error_type, context) ==
    CASE error_type = "TransactionFailed" ->
            IF context.compute_units_used > 150000 THEN "ParameterAdjustment"
            ELSE "ExponentialBackoff"
      [] error_type = "NetworkTimeout" -> "ExponentialBackoff"
      [] error_type = "InsufficientFunds" -> "CompensatingTransaction"
      [] error_type = "ComputeExceeded" -> "ParameterAdjustment"
      [] error_type = "CrossChainTimeout" -> "AlternativeExecution"
      [] error_type = "GatewayUnavailable" -> "GracefulDegradation"
      [] error_type = "StateCorruption" -> "StateReconstruction"
      [] error_type = "ConcurrencyConflict" -> "RollbackRetry"
      [] error_type = "SecurityViolation" -> "ManualIntervention"
      [] error_type = "SystemOverload" -> "GracefulDegradation"
      [] OTHER -> "ExponentialBackoff"

\* A plausible slip: the aggressive mode is not looked at.
calculate_max_attempts_ignores_mode(m, error_type) ==
    CASE error_type = "NetworkTimeout" -> 5
      [] error_type = "TransactionFailed" -> 3
      [] error_type = "ComputeExceeded" -> 2
      [] error_type = "CrossChainTimeout" -> 4
      [] error_type = "SecurityViolation" -> 1
      [] OTHER -> 3

calculate_max_attempts(m, error_type) ==
    LET base_attempts == CASE error_type = "NetworkTimeout" -> 5
                           [] error_type = "TransactionFailed" -> 3
                           [] error_type = "ComputeExceeded" -> 2
                           [] error_type = "CrossChainTimeout" -> 4
                           [] error_type = "SecurityViolation" -> 1
                           [] OTHER -> 3
    IN  IF m.aggressive_mode THEN Min(base_attempts * 2, 10) ELSE base_attempts

\* The strategies' simulated attempts (attempts_made already counts this attempt)
execute_exponential_backoff_recovery(session) ==
    session.attempts_made >= 2 /\ session.session_id % 10 < 7
execute_parameter_adjustment_recovery(session) ==
    session.attempts_made >= 1 /\ session.session_id % 10 < 6
execute_alternative_execution_recovery(session) == session.session_id % 10 < 8
execute_rollback_retry_recovery(session) == session.session_id % 10 < 7
execute_compensating_transaction_recovery(session) == session.session_id % 10 < 9
execute_state_reconstruction_recovery(session) ==
    session.attempts_made >= 2 /\ session.session_id % 10 < 5
execute_graceful_degradation_recovery(session) == session.session_id % 10 < 9

\* calculate_compensation. fees_paid * 2 is u64 arithmetic: past u64::MAX it
\* panics when the build checks overflow and wraps when it does not.
calculate_compensation(session, result, overflow_checks) ==
    LET fees == session.operation_context.fees_paid
        twice == U64Twice(fees)
        comp(type, amount, reason) ==
            [panic |-> FALSE,
             compensation |-> Some([compensation_type |-> type, amount |-> amount,
                                    token_mint |-> None, reason |-> reason])]
    IN  CASE result = "FullRecovery" -> [panic |-> FALSE, compensation |-> None]
          [] result = "PartialRecovery" ->
                comp("ServiceCredit", U64Half(fees), "Partial service disruption")
          [] result = "CompensatedFailure" ->
                comp("FeeRefund", fees, "Operation failed despite recovery attempts")
          [] result = "UnrecoverableFailure" ->
                IF twice[5] # 0 /\ overflow_checks
                THEN [panic |-> TRUE, compensation |-> None]
                ELSE comp("TokenCompensation", SubSeq(twice, 1, 4),
                          "Unrecoverable system failure")

generate_lessons_learned(session) ==
    CASE session.original_error = "ComputeExceeded" ->
            "Consider implementing dynamic compute limit adjustment"
      [] session.original_error = "NetworkTimeout" ->
            "Evaluate network reliability and implement redundant endpoints"
      [] session.original_error = "CrossChainTimeout" ->
            "Optimize cross-chain message routing and timeouts"
      [] session.original_error = "StateCorruption" ->
            "Enhance state validation and backup frequency"
      [] OTHER -> "Continue monitoring for pattern recognition"

update_success_rate(m) ==
    LET total == m.successful_recoveries + m.failed_recoveries IN
    IF total > 0
    THEN [m EXCEPT !.recovery_success_rate_bps = (m.successful_recoveries * 10000) \div total]
    ELSE m

\* complete_recovery_session at time t: the manager and the session afterwards,
\* or a panic (from calculate_compensation)
complete_recovery_session(m, session, result, t, overflow_checks) ==
    LET s1 == [session EXCEPT
                 !.status = IF result \in {"FullRecovery", "PartialRecovery"}
                            THEN "Successful" ELSE "Failed",
                 !.completed_at = Some(t),
                 !.resources_consumed.duration_seconds = t - session.started_at]
        c == calculate_compensation(s1, result, overflow_checks)
        s2 == [s1 EXCEPT !.outcome =
                 Some([result |-> result, new_signature |-> None,
                       compensation |-> c.compensation,
                       lessons_learned |-> generate_lessons_learned(s1)])]
        m1 == [m EXCEPT !.active_recovery_sessions = saturating_sub(@, 1)]
        m2 == IF result \in {"FullRecovery", "PartialRecovery"}
              THEN [m1 EXCEPT !.successful_recoveries = @ + 1]
              ELSE [m1 EXCEPT !.failed_recoveries = @ + 1]
    IN  [mgr |-> update_success_rate(m2), session |-> s2, panic |-> c.panic]

\* initiate_recovery at time t: the manager and the session account afterwards.
\* `old` is the account's content before (None when the session is new).
initiate_recovery(m, old, session_id, error_type, operation_context, t) ==
    IF ~m.auto_recovery_enabled
    THEN [mgr |-> m, session |-> old, result |-> "InvalidTransferStatus"]
    ELSE IF ~(m.active_recovery_sessions < m.max_concurrent_sessions)
    THEN [mgr |-> m, session |-> old, result |-> "InvalidTransferStatus"]
    ELSE
    LET strategy == determine_recovery_strategy(error_type, operation_context)
        max_attempts == calculate_max_attempts(m, error_type)
    IN  [mgr |-> [m EXCEPT !.active_recovery_sessions = @ + 1,
                           !.total_recovery_attempts = @ + 1,
                           !.last_recovery_attempt = t],
         session |-> Some(
            [session_id |-> session_id, original_error |-> error_type,
             recovery_strategy |-> strategy, operation_context |-> operation_context,
             attempts_made |-> 0, max_attempts |-> max_attempts, status |-> "InProgress",
             started_at |-> t, completed_at |-> None, actions_taken |-> <<>>,
             outcome |-> None,
             resources_consumed |-> [compute_units |-> 0, fees_spent |-> 0,
                                     duration_seconds |-> 0, network_requests |-> 0]]),
         result |-> "Ok"]

\* execute_recovery_attempt's two require! lines
\* A plausible slip: the status is not checked.
execute_recovery_attempt_admits_any_status(session) ==
    session.attempts_made < session.max_attempts

execute_recovery_attempt_admits(session) ==
    /\ session.status = "InProgress"
    /\ session.attempts_made < session.max_attempts

\* execute_recovery_attempt at time t: the manager and the session afterwards.
\* A panic aborts the transaction: the accounts stay as they were.
execute_recovery_attempt(m, session, t, overflow_checks) ==
    IF ~execute_recovery_attempt_admits(session)
    THEN [mgr |-> m, session |-> session, result |-> "InvalidTransferStatus"]
    ELSE
    LET s1 == [session EXCEPT !.attempts_made = @ + 1]
        strategy == s1.recovery_strategy
        success ==
            CASE strategy = "ExponentialBackoff" -> execute_exponential_backoff_recovery(s1)
              [] strategy = "ParameterAdjustment" -> execute_parameter_adjustment_recovery(s1)
              [] strategy = "AlternativeExecution" -> execute_alternative_execution_recovery(s1)
              [] strategy = "RollbackRetry" -> execute_rollback_retry_recovery(s1)
              [] strategy = "CompensatingTransaction" ->
                    execute_compensating_transaction_recovery(s1)
              [] strategy = "StateReconstruction" -> execute_state_reconstruction_recovery(s1)
              [] strategy = "GracefulDegradation" -> execute_graceful_degradation_recovery(s1)
              [] strategy = "ManualIntervention" -> FALSE
        s2 == IF strategy = "ManualIntervention"
              THEN [s1 EXCEPT !.status = "RequiresManualIntervention"] ELSE s1
        action == [action_type |-> "RetryTransaction", timestamp |-> t,
                   parameters |-> <<"Attempt", s2.attempts_made, s2.max_attempts>>,
                   result |-> IF success THEN "Success" ELSE "Failed",
                   compute_units |-> 5000]
        s3 == [s2 EXCEPT !.actions_taken = Append(@, action)]
        done == IF success
                THEN complete_recovery_session(m, s3, "FullRecovery", t, overflow_checks)
                ELSE IF s3.attempts_made >= s3.max_attempts
                THEN complete_recovery_session(m, s3, "UnrecoverableFailure", t,
                                               overflow_checks)
                ELSE [mgr |-> m, session |-> s3, panic |-> FALSE]
    IN  IF done.panic THEN [mgr |-> m, session |-> session, result |-> "Panic"]
        ELSE [mgr |-> done.mgr, session |-> done.session,
              result |-> IF success THEN "Ok(true)" ELSE "Ok(false)"]

InitiateRecovery ==
    /\ rmgr.total_recovery_attempts < MaxInitiations
    /\ \E a \in RecoveryAccounts, session_id \in RecoverySessionIds,
          error_type \in ErrorTypes, operation_context \in OperationContexts :
        LET old == IF a \in DOMAIN rsessions THEN Some(rsessions[a]) ELSE None
            r == initiate_recovery(rmgr, old, session_id, error_type,
                                   operation_context, now)
        IN  /\ rmgr' = r.mgr
            /\ rsessions' = IF r.session = None THEN rsessions
                            ELSE [x \in DOMAIN rsessions \cup {a} |->
                                     IF x = a THEN r.session[1] ELSE rsessions[x]]
            /\ recCall' = [op |-> "initiate_recovery", session |-> a, result |-> r.result]
            /\ UNCHANGED <<fraudVars, build, now, cbVars, msgVars, retryVars>>

ExecuteRecoveryAttempt ==
    \E a \in DOMAIN rsessions :
        LET r == execute_recovery_attempt(rmgr, rsessions[a], now, build.overflow_checks) IN
        /\ rmgr' = r.mgr
        /\ rsessions' = [rsessions EXCEPT ![a] = r.session]
        /\ recCall' = [op |-> "execute_recovery_attempt", session |-> a, result |-> r.result]
        /\ UNCHANGED <<fraudVars, build, now, cbVars, msgVars, retryVars>>

\* The clock advances between calls.
RecoveryTick ==
    /\ now < MaxRecoveryTime
    /\ now' = now + 1
    /\ recCall' = [op |-> "tick", session |-> "none", result |-> "Ok"]
    /\ UNCHANGED <<fraudVars, rmgr, rsessions, build, cbVars, msgVars, retryVars>>

\* -------------------------------------------------------- fraud detection
\* security/fraud_detection.rs

\* a ^ b on n-bit numbers
RECURSIVE Xor(_, _, _)
Xor(a, b, n) ==
    IF n = 0 THEN 0
    ELSE (((a % 2) + (b % 2)) % 2) + 2 * Xor(a \div 2, b \div 2, n - 1)

\* The eight bytes of a u64, most significant first
U64Bytes(x) ==
    <<x[4] \div 256, x[4] % 256, x[3] \div 256, x[3] % 256,
      x[2] \div 256, x[2] % 256, x[1] \div 256, x[1] % 256>>

\* x % m, for m below 2^23
RECURSIVE ModFrom(_, _, _, _)
ModFrom(bytes, m, i, r) ==
    IF i > Len(bytes) THEN r ELSE ModFrom(bytes, m, i + 1, (r * 256 + bytes[i]) % m)
U64Mod(x, m) == ModFrom(U64Bytes(x), m, 1, 0)

\* x > y on u64
U64Gt(x, y) ==
    \E i \in 1..4 : x[i] > y[i] /\ \A j \in (i + 1)..4 : x[j] = y[j]

\* The amounts the code names: 0, 1337, 69420, 10^12
U64Zero == U64(0, 0, 0, 0)
U64Leet == U64(1337, 0, 0, 0)
U64Meme == U64(3884, 1, 0, 0)
U64Trillion == U64(4096, 54437, 232, 0)

\* impl Default for FraudConfig
DefaultFraudConfig ==
    [risk_threshold |-> 750, analysis_window |-> 3600, velocity_threshold |-> 10,
     min_reputation |-> 500, geo_risk_multiplier |-> 150]

\* The FraudConfig values initialize() is given
FraudConfigs ==
    {DefaultFraudConfig,
     [DefaultFraudConfig EXCEPT !.risk_threshold = 100, !.velocity_threshold = 2,
                                !.min_reputation = 1000]}

\* The length of recent_operations
RECENT_OPERATIONS == 20

\* impl Default for OperationSignature (derived): every field zero
DefaultOperationSignature ==
    [op_type |-> 0, timestamp |-> 0, source_chain |-> 0, destination_chain |-> 0,
     value_hash |-> <<0, 0>>, user_hash |-> <<0, 0, 0, 0>>, risk_score |-> 0]

\* FraudDetectionEngine::initialize at time t
fraud_initialize(cfg, t) ==
    [risk_score |-> 0, suspicious_patterns |-> 0, total_operations |-> 0,
     last_analysis |-> t, config |-> cfg,
     recent_operations |-> [i \in 1..RECENT_OPERATIONS |-> DefaultOperationSignature],
     operation_index |-> 0]

\* hash_value: ((value >> 32) as u32) ^ (value as u32), a u32 as two 16-bit limbs
hash_value(value) == <<Xor(value[1], value[3], 16), Xor(value[2], value[4], 16)>>

\* hash_address: the first four bytes, byte i shifted by 8 * i and xor-ed into 0:
\* a u32 as its four bytes, least significant first
hash_address(address) == [i \in 1..4 |-> IF i <= Len(address) THEN address[i] ELSE 0]

\* The operations of the buffer that pass a filter
CountOps(e, keep(_)) ==
    Cardinality({i \in 1..RECENT_OPERATIONS : keep(e.recent_operations[i])})

\* A plausible slip: the operation being analyzed is left out of the count.
analyze_velocity_before_current(e, t) ==
    LET window_start == t - 60
        in_window(op) == op.timestamp > window_start /\ op.timestamp > 0
        velocity == CountOps(e, in_window) - 1
    IN  IF velocity > e.config.velocity_threshold
        THEN Min((velocity - e.config.velocity_threshold) * 50, 500)
        ELSE 0

analyze_velocity(e, t) ==
    LET window_start == t - 60
        in_window(op) == op.timestamp > window_start /\ op.timestamp > 0
        velocity == CountOps(e, in_window)
    IN  IF velocity > e.config.velocity_threshold
        THEN Min((velocity - e.config.velocity_threshold) * 50, 500)
        ELSE 0

analyze_chain_pair_risk(source, destination) ==
    LET high_risk_chains == {99999, 88888, 77777}
        source_risk == IF source \in high_risk_chains THEN 200 ELSE 0
        dest_risk == IF destination \in high_risk_chains THEN 200 ELSE 0
        combination_risk ==
            CASE <<source, destination>> \in {<<900, 1>>, <<1, 900>>} -> 50
              [] <<source, destination>> \in {<<900, 56>>, <<56, 900>>} -> 50
              [] <<source, destination>> \in {<<900, 7000>>, <<7000, 900>>} -> 30
              [] OTHER -> 100
    IN  Min(source_risk + dest_risk + combination_risk, 500)

\* A plausible slip: a larger penalty for high values and no cap on the sum.
analyze_value_patterns_uncapped(value) ==
    LET round_number_risk ==
            IF U64Mod(value, 1000000) = 0 /\ U64Gt(value, U64Zero) THEN 100 ELSE 0
        high_value_risk == IF U64Gt(value, U64Trillion) THEN 250 ELSE 0
        exact_amount_risk == IF value = U64Leet \/ value = U64Meme THEN 150 ELSE 0
    IN  round_number_risk + high_value_risk + exact_amount_risk

analyze_value_patterns(value) ==
    LET round_number_risk ==
            IF U64Mod(value, 1000000) = 0 /\ U64Gt(value, U64Zero) THEN 100 ELSE 0
        high_value_risk == IF U64Gt(value, U64Trillion) THEN 200 ELSE 0
        exact_amount_risk == IF value = U64Leet \/ value = U64Meme THEN 150 ELSE 0
    IN  Min(round_number_risk + high_value_risk + exact_amount_risk, 300)

\* The arm 23..=1 is an empty range: no hour matches it.
analyze_temporal_patterns(timestamp) ==
    LET hour == (timestamp % 86400) \div 3600 IN
    CASE hour \in 2..5 -> 100
      [] hour \in 6..7 -> 50
      [] OTHER -> 0

analyze_user_behavior(e, user_address) ==
    LET user_hash == hash_address(user_address)
        by_user(op) == op.user_hash = user_hash /\ op.timestamp > 0
        user_ops == CountOps(e, by_user)
    IN  IF user_ops > 5 THEN (user_ops - 5) * 50 ELSE 0

analyze_route_risk(operation) ==
    LET route_complexity == IF operation.route_hops = None THEN 1
                            ELSE operation.route_hops[1]
    IN  CASE route_complexity = 1 -> 0
          [] route_complexity = 2 -> 50
          [] route_complexity = 3 -> 150
          [] route_complexity >= 4 -> 300

calculate_reputation_risk(e, reputation) ==
    IF reputation = None THEN 200
    ELSE IF reputation[1] >= e.config.min_reputation THEN 0
    ELSE Min(e.config.min_reputation - reputation[1], 400)

\* The weights by position: velocity, chain_pair, value_pattern, temporal,
\* behavior, route, reputation
RiskWeights == <<25, 20, 15, 10, 15, 10, 5>>

RECURSIVE SumTo(_, _)
SumTo(f, n) == IF n = 0 THEN 0 ELSE f[n] + SumTo(f, n - 1)

calculate_weighted_risk(factors) ==
    LET weighted_sum == SumTo([i \in 1..7 |-> factors[i] * RiskWeights[i]], 7)
        total_weight == SumTo(RiskWeights, 7)
    IN  IF total_weight > 0 THEN weighted_sum \div total_weight ELSE 0

\* calculate_comprehensive_risk_score: the seven sub-scores and the total
calculate_comprehensive_risk_score(e, operation, t) ==
    LET factors == <<analyze_velocity(e, t),
                     analyze_chain_pair_risk(operation.source_chain_id,
                                             operation.destination_chain_id),
                     analyze_value_patterns(operation.value),
                     analyze_temporal_patterns(t),
                     analyze_user_behavior(e, operation.user_address),
                     analyze_route_risk(operation),
                     calculate_reputation_risk(e, operation.user_reputation)>>
    IN  [factors |-> factors, total |-> Min(calculate_weighted_risk(factors), 1000)]

detect_rapid_fire_pattern(e, t) ==
    LET recent(op) == op.timestamp > t - 60 /\ op.timestamp > 0 IN
    CountOps(e, recent) >= 10

detect_circular_pattern(e) ==
    \E i \in 1..18 :
        LET op1 == e.recent_operations[i]
            op2 == e.recent_operations[i + 1]
            op3 == e.recent_operations[i + 2]
        IN  /\ op1.timestamp > 0 /\ op2.timestamp > 0 /\ op3.timestamp > 0
            /\ op1.source_chain = op3.destination_chain
            /\ op1.destination_chain = op3.source_chain
            /\ op1.user_hash = op2.user_hash /\ op2.user_hash = op3.user_hash

detect_value_manipulation_pattern(e) ==
    \E i \in 1..RECENT_OPERATIONS :
        LET same(op) == op.timestamp > 0
                        /\ e.recent_operations[i].timestamp > 0
                        /\ op.value_hash = e.recent_operations[i].value_hash
        IN  CountOps(e, same) >= 5

detect_chain_hopping_pattern(e) ==
    Cardinality({i \in 1..(RECENT_OPERATIONS - 1) :
                    /\ e.recent_operations[i].timestamp > 0
                    /\ e.recent_operations[i + 1].timestamp > 0
                    /\ e.recent_operations[i].destination_chain
                         # e.recent_operations[i + 1].source_chain}) >= 5

detect_patterns(e, t) ==
    (IF detect_rapid_fire_pattern(e, t) THEN 1 ELSE 0)
    + (IF detect_circular_pattern(e) THEN 1 ELSE 0)
    + (IF detect_value_manipulation_pattern(e) THEN 1 ELSE 0)
    + (IF detect_chain_hopping_pattern(e) THEN 1 ELSE 0)

\* A plausible slip: the weights of the old and the new score are exchanged.
update_risk_score_swapped(e, new_risk) ==
    LET alpha == 70 IN
    (e.risk_score * (100 - alpha) + new_risk * alpha) \div 100

update_risk_score(e, new_risk) ==
    LET alpha == 30 IN
    (e.risk_score * (100 - alpha) + new_risk * alpha) \div 100

get_recommendation(risk_score) ==
    CASE risk_score <= 200 -> "Allow"
      [] risk_score \in 201..500 -> "Monitor"
      [] risk_score \in 501..750 -> "RequireAdditionalVerification"
      [] risk_score \in 751..900 -> "Delay"
      [] OTHER -> "Block"

calculate_confidence(e) ==
    LET operations_factor == (Min(e.total_operations, 100) * 80) \div 100
        pattern_factor == (Min(e.suspicious_patterns, 10) * 20) \div 10
    IN  Min(operations_factor + pattern_factor, 100)

\* The OperationSignature analyze_operation makes of its input at time t
signature_of(operation, t) ==
    [op_type |-> operation.operation_type, timestamp |-> t,
     source_chain |-> operation.source_chain_id,
     destination_chain |-> operation.destination_chain_id,
     value_hash |-> hash_value(operation.value),
     user_hash |-> hash_address(operation.user_address),
     risk_score |-> 0]

\* A plausible slip: the index wraps one slot early.
next_operation_index_early(e) == (e.operation_index + 1) % (RECENT_OPERATIONS - 1)

\* The slot after the one just written
next_operation_index(e) == (e.operation_index + 1) % RECENT_OPERATIONS

\* analyze_operation at time t: the engine afterwards, the result, and the
\* sub-scores it logs
analyze_operation(e, operation, t) ==
    LET e1 == [e EXCEPT !.recent_operations[e.operation_index + 1] =
                            signature_of(operation, t),
                        !.operation_index = next_operation_index(e),
                        !.total_operations = @ + 1]
        risk == calculate_comprehensive_risk_score(e1, operation, t)
        e2 == [e1 EXCEPT !.risk_score = update_risk_score(e1, risk.total)]
        suspicious_patterns == detect_patterns(e2, t)
        e3 == [e2 EXCEPT !.suspicious_patterns = @ + suspicious_patterns]
    IN  [engine |-> [e3 EXCEPT !.last_analysis = t],
         factors |-> risk.factors,
         result |-> [risk_score |-> risk.total,
                     is_suspicious |-> risk.total > e3.config.risk_threshold,
                     detected_patterns |-> suspicious_patterns,
                     recommendation |-> get_recommendation(risk.total),
                     confidence |-> calculate_confidence(e3)]]

\* Inputs of analyze_operation. The first and third users share their first
\* four address bytes; the fourth has a one-byte address.
OperationInputs ==
    { [operation_type |-> 1, source_chain_id |-> 900, destination_chain_id |-> 7000,
       value |-> U64(19264, 76, 0, 0),                    \* 5,000,000
       user_address |-> <<1, 2, 3, 4, 5>>, user_reputation |-> Some(600),
       route_hops |-> None],
      [operation_type |-> 4, source_chain_id |-> 99999, destination_chain_id |-> 88888,
       value |-> U64Leet,
       user_address |-> <<9, 9, 9, 9, 9>>, user_reputation |-> None,
       route_hops |-> Some(4)],
      [operation_type |-> 2, source_chain_id |-> 7000, destination_chain_id |-> 900,
       value |-> U64(8192, 43338, 465, 0),                \* 2,000,000,000,000
       user_address |-> <<1, 2, 3, 4, 6>>, user_reputation |-> Some(100),
       route_hops |-> Some(2)],
      [operation_type |-> 3, source_chain_id |-> 900, destination_chain_id |-> 1,
       value |-> U64Zero,
       user_address |-> <<7>>, user_reputation |-> Some(500),
       route_hops |-> Some(3)] }

\* The one operation the long runs repeat
RepeatedInputs == {op \in OperationInputs : op.operation_type = 1}

\* The operation that scores highest on every count: both chains on the
\* high-risk list, a round amount above the ceiling, a reputation 400 below the
\* minimum, four hops
WorstInputs ==
    { [operation_type |-> 1, source_chain_id |-> 99999, destination_chain_id |-> 88888,
       value |-> U64(8192, 43338, 465, 0),                \* 2,000,000,000,000
       user_address |-> <<6, 6, 6, 6>>, user_reputation |-> Some(100),
       route_hops |-> Some(4)] }

\* The clock's steps between analyses, and the times an engine is started at:
\* one second into hour 0, hour 3 and hour 23
ClockSteps == {20}
FraudStartTimes == {1, 10801, 82801}

\* analyze_operation on one of `inputs`, while fewer than maxOps were analyzed
AnalyzeOperationOf(inputs, maxOps) ==
    /\ feng.total_operations < maxOps
    /\ \E operation \in inputs :
        LET r == analyze_operation(feng, operation, now) IN
        /\ feng' = r.engine
        /\ fraudCall' = [op |-> "analyze_operation", operation |-> operation,
                         factors |-> r.factors, result |-> r.result]
        /\ analyzed' = LastN(Append(analyzed, signature_of(operation, now)),
                             RECENT_OPERATIONS)
        /\ UNCHANGED <<now, cbVars, msgVars, retryVars, recVars>>

AnalyzeOperation == AnalyzeOperationOf(OperationInputs, MaxFraudOps)

AnalyzeRepeatedOperation == AnalyzeOperationOf(RepeatedInputs, MaxRingOps)

AnalyzeWorstOperation == AnalyzeOperationOf(WorstInputs, MaxRingOps)

\* The clock advances between calls, up to maxElapsed after the start.
FraudTickTo(maxElapsed) ==
    \E step \in ClockSteps :
        /\ ((now - 1) % 3600) + step <= maxElapsed
        /\ now' = now + step
        /\ fraudCall' = [op |-> "tick"]
        /\ UNCHANGED <<feng, analyzed, cbVars, msgVars, retryVars, recVars>>

FraudTick == FraudTickTo(MaxFraudElapsed)

RingTick == FraudTickTo(MaxRingElapsed)

\* ---------------------------------------------------------- stats accessors
\* circuit_breaker.rs get_health_metrics, transaction_retry.rs get_retry_stats,
\* error_recovery.rs get_recovery_stats: all take &self.

\* success_count / total_ops * 100.0: the f64 is kept as the fraction it rounds
Percent(part, whole) ==
    LET g == Gcd(part * 100, whole) IN
    IF part = 0 THEN <<0, 1>> ELSE <<(part * 100) \div g, whole \div g>>

\* A plausible slip: the time is measured from the start of the window.
get_health_metrics_since_window(b, t) ==
    LET total_ops == b.failure_count + b.success_count IN
    [state |-> b.state,
     success_rate |-> IF total_ops > 0 THEN Percent(b.success_count, total_ops)
                      ELSE <<100, 1>>,
     total_operations |-> total_ops,
     failures_in_window |-> b.failure_count,
     time_in_current_state |-> t - b.window_start]

\* get_health_metrics read when the clock says t
get_health_metrics(b, t) ==
    LET total_ops == b.failure_count + b.success_count IN
    [state |-> b.state,
     success_rate |-> IF total_ops > 0 THEN Percent(b.success_count, total_ops)
                      ELSE <<100, 1>>,
     total_operations |-> total_ops,
     failures_in_window |-> b.failure_count,
     time_in_current_state |-> t - b.last_state_change]

get_retry_stats(m) ==
    LET total_attempts == m.successful_retries + m.failed_retries
        success_rate == IF total_attempts > 0
                        THEN (m.successful_retries * 10000) \div total_attempts
                        ELSE 10000
    IN  [total_retry_attempts |-> m.total_retry_attempts,
         successful_retries |-> m.successful_retries,
         failed_retries |-> m.failed_retries,
         active_sessions |-> m.active_retry_sessions,
         success_rate_bps |-> success_rate % 65536,
         adaptive_retry_enabled |-> m.adaptive_retry_enabled,
         max_concurrent_sessions |-> m.max_concurrent_sessions,
         last_retry_attempt |-> m.last_retry_attempt]

get_recovery_stats(m) ==
    LET total_attempts == m.successful_recoveries + m.failed_recoveries IN
    [total_recovery_attempts |-> m.total_recovery_attempts,
     successful_recoveries |-> m.successful_recoveries,
     failed_recoveries |-> m.failed_recoveries,
     active_sessions |-> m.active_recovery_sessions,
     success_rate_bps |-> m.recovery_success_rate_bps,
     auto_recovery_enabled |-> m.auto_recovery_enabled,
     aggressive_mode |-> m.aggressive_mode,
     avg_attempts_per_session |-> IF total_attempts > 0
                                  THEN m.total_recovery_attempts \div total_attempts
                                  ELSE 0]

\* What an accessor call records: its result, the clock at the call and, when
\* the call before it on this account was the same accessor, that call.
Reading(call, op, value) ==
    [op |-> op, result |-> "Ok", at |-> now, value |-> value,
     previous |-> IF call.op = op THEN Some([at |-> call.at, value |-> call.value])
                  ELSE None]

GetHealthMetrics ==
    /\ cbCall' = Reading(cbCall, "get_health_metrics", get_health_metrics(cb, now))
    /\ UNCHANGED <<now, cb, openEnteredAt, closedFails, halfOpenAdmitted,
                   msgVars, retryVars, recVars, fraudVars>>

GetRetryStats ==
    /\ retryCall' = [Reading(retryCall, "get_retry_stats", get_retry_stats(mgr))
                        EXCEPT !.at = 0] @@ [session |-> "none"]
    /\ UNCHANGED <<now, mgr, sessions, delays, cbVars, msgVars, recVars, fraudVars>>

GetRecoveryStats ==
    /\ recCall' = [Reading(recCall, "get_recovery_stats", get_recovery_stats(rmgr))
                      EXCEPT !.at = 0] @@ [session |-> "none"]
    /\ UNCHANGED <<now, rmgr, rsessions, build, cbVars, msgVars, retryVars, fraudVars>>

\* The clock advances by a second between two reads of the health metrics.
StatsTick ==
    /\ cbCall.op = "get_health_metrics"
    /\ cbCall.at = now
    /\ now < MaxStatsTime
    /\ now' = now + 1
    /\ UNCHANGED <<cbVars, msgVars, retryVars, recVars, fraudVars>>

\* Each run exercises one of the three accounts: the accessors read nothing
\* but their own account.
StatsOnBreaker ==
    /\ retryCall.op = "initialize" /\ recCall.op = "initialize"
    /\ \/ CheckOperationAllowed
       \/ RecordSuccess
       \/ RecordFailure
       \/ SetManualOverride
       \/ (now < MaxStatsTime /\ CBTick)
       \/ GetHealthMetrics
       \/ StatsTick

StatsOnRetry ==
    /\ cbCall.op = "initialize" /\ recCall.op = "initialize"
    /\ \/ ScheduleRetryToCap
       \/ ExecuteRetryAttempt
       \/ CancelRetrySession
       \/ CapTick
       \/ GetRetryStats

StatsOnRecovery ==
    /\ cbCall.op = "initialize" /\ retryCall.op = "initialize"
    /\ \/ InitiateRecovery
       \/ ExecuteRecoveryAttempt
       \/ RecoveryTick
       \/ GetRecoveryStats

\* ------------------------------------------------------------ specifications

MsgStart ==
    /\ config = msg_initialize(<<2, 1>>)
    /\ nft = [m \in Mints |->
                [owner |-> "alice", is_locked |-> FALSE,
                 token_amount |-> [u \in Users |-> IF u = "alice" THEN 1 ELSE 0]]]
    /\ transfers = <<>>
    /\ msgCall = [op |-> "initialize", result |-> "Ok", nonce |-> 0]
    /\ accepted = <<>>

RetryStart ==
    /\ mgr = retry_initialize(ManagerConfig)
    /\ sessions = <<>>
    /\ delays = <<>>
    /\ retryCall = [op |-> "initialize", session |-> "none", result |-> "Ok"]

\* impl Default for RecoveryConfig, the cap scaled to the session accounts
DefaultRecoveryConfig ==
    [max_concurrent_sessions |-> MaxRecoverySessions, auto_recovery_enabled |-> TRUE,
     aggressive_mode |-> FALSE]

\* The RecoveryConfig values initialize() is given
RecoveryConfigs ==
    { [DefaultRecoveryConfig EXCEPT !.aggressive_mode = g, !.auto_recovery_enabled = e] :
        g \in BOOLEAN, e \in BOOLEAN }

RecoveryStartWith(cfg, overflow_checks) ==
    /\ rmgr = rec_initialize(cfg, 0)
    /\ rsessions = <<>>
    /\ recCall = [op |-> "initialize", session |-> "none", result |-> "Ok"]
    /\ build = [overflow_checks |-> overflow_checks]

RecoveryStart == RecoveryStartWith(DefaultRecoveryConfig, TRUE)

\* The fraud engine initialized at time t
FraudStartWith(cfg, t) ==
    /\ feng = fraud_initialize(cfg, t)
    /\ fraudCall = [op |-> "initialize"]
    /\ analyzed = <<>>

FraudStart == FraudStartWith(DefaultFraudConfig, 0)

\* The breaker's configuration is the one choice at construction.
InitCB ==
    /\ now = 0
    /\ \E cfg \in CircuitConfigs : cb = cb_initialize(cfg, now)
    /\ cbCall = [op |-> "initialize", result |-> "Ok"]
    /\ openEnteredAt = 0
    /\ closedFails = <<>>
    /\ halfOpenAdmitted = 0
    /\ MsgStart /\ RetryStart /\ RecoveryStart /\ FraudStart

Init ==
    /\ now = 0
    /\ cb = cb_initialize(CHOOSE cfg \in CircuitConfigs : cfg.failure_threshold = 2, now)
    /\ cbCall = [op |-> "initialize", result |-> "Ok"]
    /\ openEnteredAt = 0
    /\ closedFails = <<>>
    /\ halfOpenAdmitted = 0
    /\ MsgStart /\ RetryStart /\ RecoveryStart /\ FraudStart

\* The recovery manager's configuration and the build profile are chosen at construction.
InitRecovery ==
    /\ now = 0
    /\ cb = cb_initialize(CHOOSE cfg \in CircuitConfigs : cfg.failure_threshold = 2, now)
    /\ cbCall = [op |-> "initialize", result |-> "Ok"]
    /\ openEnteredAt = 0
    /\ closedFails = <<>>
    /\ halfOpenAdmitted = 0
    /\ MsgStart /\ RetryStart /\ FraudStart
    /\ \E cfg \in RecoveryConfigs, overflow_checks \in BOOLEAN :
          RecoveryStartWith(cfg, overflow_checks)

\* The other accounts as they are at construction
OthersStart ==
    /\ cb = cb_initialize(CHOOSE cfg \in CircuitConfigs : cfg.failure_threshold = 2, 0)
    /\ cbCall = [op |-> "initialize", result |-> "Ok"]
    /\ openEnteredAt = 0
    /\ closedFails = <<>>
    /\ halfOpenAdmitted = 0
    /\ MsgStart /\ RetryStart /\ RecoveryStart

\* The fraud engine's configuration and the time of its initialization are
\* chosen at construction.
InitFraud ==
    /\ now \in FraudStartTimes
    /\ \E cfg \in FraudConfigs : FraudStartWith(cfg, now)
    /\ OthersStart

\* The worst case starts at 03:00:01, in the hours that score highest.
InitFraudWorst ==
    /\ now = 10801
    /\ FraudStartWith(DefaultFraudConfig, now)
    /\ OthersStart

\* The long runs start one second into the day, with the default configuration.
InitFraudRing ==
    /\ now = 1
    /\ FraudStartWith(DefaultFraudConfig, now)
    /\ OthersStart

NextCB ==
    \/ CheckOperationAllowed
    \/ RecordSuccess
    \/ RecordFailure
    \/ SetManualOverride
    \/ CBTick

NextMsg ==
    \/ UpdateConfig
    \/ VerifyCrossChainMessage
    \/ VerifySignature
    \/ BurnAndTransfer
    \/ OnRevert
    \/ TransferNft

NextOutbound ==
    \/ UpdateConfig
    \/ BurnAndTransferRecorded
    \/ OnRevert
    \/ TransferNft

NextSig ==
    \/ UpdateConfig
    \/ VerifySignature
    \/ BatchVerifySignatures

NextRetry ==
    \/ ScheduleRetry
    \/ ExecuteRetryAttempt
    \/ CancelRetrySession
    \/ UpdateRetryConfig
    \/ RetryTick

NextRetryCap ==
    \/ ScheduleRetryToCap
    \/ ExecuteRetryAttempt
    \/ CancelRetrySession
    \/ UpdateRetryConfig
    \/ CapTick

NextFraud ==
    \/ AnalyzeOperation
    \/ FraudTick

NextFraudWorst ==
    \/ AnalyzeWorstOperation
    \/ RingTick

NextFraudRing ==
    \/ AnalyzeRepeatedOperation
    \/ RingTick

NextStats ==
    \/ StatsOnBreaker
    \/ StatsOnRetry
    \/ StatsOnRecovery

NextRecovery ==
    \/ InitiateRecovery
    \/ ExecuteRecoveryAttempt
    \/ RecoveryTick

\* The circuit breaker
SpecCB == InitCB /\ [][NextCB]_vars
\* The configuration account, the nonce and the NFT lock
SpecMsg == Init /\ [][NextMsg]_vars
\* The outbound instructions, the arguments of burn_and_transfer kept
SpecOutbound == Init /\ [][NextOutbound]_vars
\* The same, the gateway going on to deliver on_revert calls
SpecMsgFair == Init /\ [][NextMsg]_vars /\ WF_vars(OnRevert)
\* The signature instructions
SpecSig == Init /\ [][NextSig]_vars
\* Message hashing
SpecHash == Init /\ [][HashMessage]_vars
\* The retry manager
SpecRetry == Init /\ [][NextRetry]_vars
\* The retry manager, one session account scheduled again and again up to the cap
SpecRetryCap == Init /\ [][NextRetryCap]_vars
\* The fraud detection engine, a few operations of every kind
SpecFraud == InitFraud /\ [][NextFraud]_vars
\* The fraud detection engine, one operation repeated past the buffer's length
SpecFraudRing == InitFraudRing /\ [][NextFraudRing]_vars
\* The fraud detection engine, the highest-scoring operation repeated
SpecFraudWorst == InitFraudWorst /\ [][NextFraudWorst]_vars
\* The error recovery manager
SpecRecovery == InitRecovery /\ [][NextRecovery]_vars
\* The accounts with stats accessors, one account per run
SpecStats == Init /\ [][NextStats]_vars

\* ------------------------------------------------------------------ claims

\* C1: starting from Closed, once failure_threshold record_failure calls have
\* been made inside a span of failure_window seconds (checks and successes may
\* be interleaved, at any offset from window_start), the breaker is Open after
\* the last of them.
C1_ThresholdFailuresInWindowOpen ==
    ( /\ cbCall.op = "record_failure"
      /\ Len(closedFails) = cb.config.failure_threshold
      /\ closedFails[Len(closedFails)] - closedFails[1] < cb.config.failure_window )
    => cb.state = "Open"

\* C2: a step from Open to HalfOpen is a check_operation_allowed made when
\* now - last_state_change >= min_open_duration; it is never made earlier than
\* min_open_duration after Open was entered.
C2_HalfOpenOnlyAfterMinOpenDuration ==
    [][ (cb.state = "Open" /\ cb'.state = "HalfOpen")
        => /\ cbCall'.op = "check_operation_allowed"
           /\ now' - cb.last_state_change >= cb.config.min_open_duration
           /\ now' - openEnteredAt >= cb.config.min_open_duration ]_vars

\* C2's case: a check has just moved the breaker from Open to HalfOpen.
C2_Witness ==
    /\ cb.state = "HalfOpen"
    /\ cbCall = [op |-> "check_operation_allowed", result |-> "Ok"]
    /\ cb.last_state_change = now
    /\ now - openEnteredAt >= cb.config.min_open_duration

\* C3: in ManualOverride, check_operation_allowed, record_success and
\* record_failure leave the state ManualOverride, and every check is admitted.
C3_ManualOverrideStays ==
    [][ ( /\ cb.state = "ManualOverride"
          /\ cbCall'.op \in {"check_operation_allowed", "record_success", "record_failure"} )
        => /\ cb'.state = "ManualOverride"
           /\ (cbCall'.op = "check_operation_allowed" => cbCall'.result = "Ok") ]_vars

\* C4 as written: verify_cross_chain_message rejects with NonceMismatch every
\* message whose nonce is <= config.nonce.
C4_StaleNonceGetsNonceMismatch ==
    [][ ( /\ msgCall'.op = "verify_cross_chain_message"
          /\ msgCall'.nonce <= config.nonce )
        => msgCall'.result = "NonceMismatch" ]_vars

\* C4, amended: verify_cross_chain_message rejects every message whose nonce is
\* <= config.nonce, with ProgramPaused when the program is paused and with
\* NonceMismatch otherwise, and leaves the configuration as it was; a nonce it
\* accepts is greater than every nonce accepted before, so the accepted nonces
\* are strictly increasing and none is accepted twice.
C4_ReplayResistance ==
    [][ /\ ( /\ msgCall'.op = "verify_cross_chain_message"
             /\ msgCall'.nonce <= config.nonce )
           => /\ msgCall'.result =
                    IF config.is_paused THEN "ProgramPaused" ELSE "NonceMismatch"
              /\ config' = config
              /\ accepted' = accepted
        /\ ( /\ msgCall'.op = "verify_cross_chain_message"
             /\ msgCall'.result = "Ok" )
           => \A i \in 1..Len(accepted) : accepted[i] < msgCall'.nonce
        /\ \A i, j \in 1..Len(accepted') : i < j => accepted'[i] < accepted'[j] ]_vars

\* C4's case: after two messages were accepted, the last accepted nonce is
\* submitted again and rejected with NonceMismatch.
C4_Witness ==
    /\ Len(accepted) >= 2
    /\ msgCall = [op |-> "verify_cross_chain_message", result |-> "NonceMismatch",
                  nonce |-> accepted[Len(accepted)]]

\* C5: config.nonce changes only in a verify_cross_chain_message call that
\* succeeds; failed verifications and every other instruction leave it unchanged.
C5_NonceChangedOnlyByAcceptedMessage ==
    [][ config'.nonce # config.nonce
        => /\ msgCall'.op = "verify_cross_chain_message"
           /\ msgCall'.result = "Ok" ]_vars

\* C6: whatever instructions ran since the last accepted inbound message, a
\* message signed by the authority, for a supported chain, with a 20- or 32-byte
\* recipient and a nonce greater than the last accepted one is accepted
\* (the program not being paused).
C6_FreshInboundNonceAccepted ==
    (accepted # <<>> /\ ~config.is_paused)
    => \A nonce \in 0..MaxNonce, chain_id \in ChainIds, recipient \in Recipients :
          ( /\ nonce > accepted[Len(accepted)]
            /\ validate_chain_id(chain_id)
            /\ validate_recipient(recipient) )
          => verify_cross_chain_message(
                 config, nonce, chain_id, recipient,
                 Some(pubkey_to_eth_address(config.tss_authority))).result = "Ok"

\* C7: in every state each session has current_attempt <= retry_config.max_attempts,
\* and execute_retry_attempt on a session whose current_attempt has reached
\* max_attempts is rejected and changes neither the session nor the manager.
C7_AttemptsBounded ==
    [][ /\ \A a \in DOMAIN sessions' :
              sessions'[a].current_attempt <= sessions'[a].retry_config.max_attempts
        /\ \A a \in DOMAIN sessions :
              ( /\ retryCall'.op = "execute_retry_attempt"
                /\ retryCall'.session = a
                /\ sessions[a].current_attempt >= sessions[a].retry_config.max_attempts )
              => /\ retryCall'.result = "InvalidTransferStatus"
                 /\ mgr' = mgr
                 /\ sessions' = sessions
                 /\ delays' = delays ]_vars

\* C7's case: a session has made all its attempts (three of them) and one more
\* execute_retry_attempt on it has just been rejected.
C7_Witness ==
    \E a \in DOMAIN sessions :
        /\ retryCall = [op |-> "execute_retry_attempt", session |-> a,
                        result |-> "InvalidTransferStatus"]
        /\ sessions[a].retry_config.max_attempts = 3
        /\ sessions[a].current_attempt = 3
        /\ mgr.total_retry_attempts >= 3

\* C8: for each session, the delays scheduled by schedule_retry and then after
\* each failed attempt never decrease while they are below max_delay_seconds.
C8_DelaysNonDecreasing ==
    \A a \in DOMAIN delays :
        \A i \in 1..(Len(delays[a]) - 1) :
            delays[a][i] < sessions[a].retry_config.max_delay_seconds
            => delays[a][i + 1] >= delays[a][i]

\* C9: active_retry_sessions never exceeds max_concurrent_sessions, and
\* schedule_retry called with active_retry_sessions = max_concurrent_sessions
\* returns an error and leaves the manager and the session accounts unchanged.
C9_ConcurrentSessionsCapped ==
    [][ /\ mgr'.active_retry_sessions <= mgr'.max_concurrent_sessions
        /\ ( /\ retryCall'.op = "schedule_retry"
             /\ mgr.active_retry_sessions = mgr.max_concurrent_sessions )
           => /\ retryCall'.result = "InvalidTransferStatus"
              /\ mgr' = mgr
              /\ sessions' = sessions
              /\ delays' = delays ]_vars

\* C9's case: schedule_retry has just been refused with the manager at its cap.
C9_Witness ==
    /\ retryCall.op = "schedule_retry"
    /\ retryCall.result = "InvalidTransferStatus"
    /\ mgr.active_retry_sessions = mgr.max_concurrent_sessions
    /\ mgr.max_concurrent_sessions = MAX_CONCURRENT_SESSIONS

\* C10: execute_retry_attempt called before next_retry_at, or on a session whose
\* status is not Scheduled, returns an error and leaves the session and the
\* manager unchanged.
C10_IneligibleAttemptChangesNothing ==
    [][ \A a \in DOMAIN sessions :
           ( /\ retryCall'.op = "execute_retry_attempt"
             /\ retryCall'.session = a
             /\ (now < sessions[a].next_retry_at \/ sessions[a].status # "Scheduled") )
           => /\ retryCall'.result = "InvalidTransferStatus"
              /\ mgr' = mgr
              /\ sessions' = sessions ]_vars

\* C10's case: after a failed first attempt the session is Scheduled again with
\* attempts left, and an execute_retry_attempt made before next_retry_at has
\* just been rejected.
C10_Witness ==
    \E a \in DOMAIN sessions :
        /\ retryCall = [op |-> "execute_retry_attempt", session |-> a,
                        result |-> "InvalidTransferStatus"]
        /\ sessions[a].status = "Scheduled"
        /\ sessions[a].current_attempt >= 1
        /\ sessions[a].current_attempt < sessions[a].retry_config.max_attempts
        /\ now < sessions[a].next_retry_at

\* C11: every recovery session is either completed (status Successful or Failed,
\* with an outcome and a completion time recorded) or still executable
\* (InProgress with attempts left and no successful attempt yet): none is left
\* non-terminal where execute_recovery_attempt can no longer run.
C11_SessionsCompleteOrExecutable ==
    \A a \in DOMAIN rsessions :
        LET s == rsessions[a] IN
        \/ /\ s.status \in {"Successful", "Failed"}
           /\ s.outcome # None
           /\ s.completed_at # None
        \/ /\ s.status = "InProgress"
           /\ s.attempts_made < s.max_attempts
           /\ \A i \in 1..Len(s.actions_taken) : s.actions_taken[i].result # "Success"

\* C12: the compensation of a completed session, and the compensation
\* calculate_compensation gives any session for each outcome and each fees_paid,
\* is: none for FullRecovery, fees_paid / 2 for PartialRecovery, fees_paid for
\* CompensatedFailure, exactly 2 x fees_paid for UnrecoverableFailure.
C12_CompensationFromFeesPaid ==
    LET expected(result, fees, c) ==
            CASE result = "FullRecovery" -> c = None
              [] result = "PartialRecovery" -> c # None /\ c[1].amount = U64Half(fees)
              [] result = "CompensatedFailure" -> c # None /\ c[1].amount = fees
              [] result = "UnrecoverableFailure" ->
                    c # None /\ U64Widen(c[1].amount) = U64Twice(fees)
    IN  \A a \in DOMAIN rsessions :
            /\ rsessions[a].outcome # None
               => expected(rsessions[a].outcome[1].result,
                           rsessions[a].operation_context.fees_paid,
                           rsessions[a].outcome[1].compensation)
            /\ \A result \in RecoveryResults, fees \in FeeValues :
                  LET session == [rsessions[a] EXCEPT !.operation_context.fees_paid = fees]
                      c == calculate_compensation(session, result, build.overflow_checks)
                  IN  ~c.panic /\ expected(result, fees, c.compensation)

\* C13, first part: a check_operation_allowed made on an Open breaker less than
\* min_open_duration after Open was entered returns CircuitBreakerOpen and
\* leaves the state Open.
C13_RejectedWhileOpen ==
    ( /\ cb.state = "Open"
      /\ cbCall'.op = "check_operation_allowed"
      /\ now' - openEnteredAt < cb.config.min_open_duration )
    => /\ cbCall'.result = "CircuitBreakerOpen"
       /\ cb'.state = "Open"

\* C13, second part: a check made immediately after the last of
\* failure_threshold failures reported within a third of failure_window
\* (5 failures within 100 of 300 seconds) is rejected with CircuitBreakerOpen.
C13_RejectedAfterThresholdFailures ==
    ( /\ cbCall.op = "record_failure"
      /\ Len(closedFails) = cb.config.failure_threshold
      /\ 3 * (closedFails[Len(closedFails)] - closedFails[1]) <= cb.config.failure_window
      /\ cbCall'.op = "check_operation_allowed" )
    => cbCall'.result = "CircuitBreakerOpen"

\* C13: while the state is Open and less than min_open_duration has elapsed
\* since Open was entered, check_operation_allowed returns CircuitBreakerOpen
\* and the state stays Open; in particular a check made right after
\* failure_threshold failures reported well within failure_window is rejected
\* with CircuitBreakerOpen.
C13_OpenRejectsUntilMinOpenDuration ==
    [][ C13_RejectedWhileOpen /\ C13_RejectedAfterThresholdFailures ]_vars

\* C14: in HalfOpen, a record_failure call moves the breaker to Open, whatever
\* failure_threshold is.
C14_HalfOpenFailureOpens ==
    [][ (cb.state = "HalfOpen" /\ cbCall'.op = "record_failure")
        => cb'.state = "Open" ]_vars

\* C15: while the state is HalfOpen, the number of check_operation_allowed
\* calls admitted within one failure window never exceeds half_open_limit,
\* whether or not the admitted operations have reported yet.
C15_HalfOpenAdmissionsCapped ==
    cb.state = "HalfOpen" => halfOpenAdmitted <= cb.config.half_open_limit

\* C16: in HalfOpen, the record_success that brings the successes recorded in
\* the current window to success_threshold, with no failure recorded in that
\* window, leaves the breaker Closed with failure_count = success_count = 0;
\* and no call other than set_manual_override closes a HalfOpen breaker in
\* whose current window a failure has been recorded.
C16_HalfOpenClosesOnSuccessesOnly ==
    [][ cb.state = "HalfOpen" =>
          LET expired == now' - cb.window_start >= cb.config.failure_window
              failures == IF expired THEN 0 ELSE cb.failure_count
              successes == IF expired THEN 0 ELSE cb.success_count
          IN  /\ ( /\ cbCall'.op = "record_success"
                   /\ failures = 0
                   /\ successes + 1 >= cb.config.success_threshold )
                 => /\ cb'.state = "Closed"
                    /\ cb'.failure_count = 0
                    /\ cb'.success_count = 0
              /\ (failures > 0 /\ cbCall'.op # "set_manual_override")
                 => cb'.state # "Closed" ]_vars

\* C16's case: a record_success has just closed a breaker that had needed
\* more than one success in HalfOpen.
C16_Witness ==
    /\ cbCall.op = "record_success"
    /\ cb.state = "Closed"
    /\ cb.last_state_change = now
    /\ cb.config.success_threshold > 1
    /\ cb.failure_count = 0 /\ cb.success_count = 0

\* C17: every Closed state has failure_count < failure_threshold, and a
\* check_operation_allowed made in Closed returns Ok and leaves the state Closed.
C17_ClosedAlwaysAdmits ==
    /\ [](cb.state = "Closed" => cb.failure_count < cb.config.failure_threshold)
    /\ [][ (cb.state = "Closed" /\ cbCall'.op = "check_operation_allowed")
           => (cbCall'.result = "Ok" /\ cb'.state = "Closed") ]_vars

\* C17's case: a check has just been admitted in Closed with the failures of
\* the window one short of the threshold.
C17_Witness ==
    /\ cb.state = "Closed"
    /\ cbCall = [op |-> "check_operation_allowed", result |-> "Ok"]
    /\ cb.failure_count = cb.config.failure_threshold - 1
    /\ cb.last_state_change > 0

\* C18: set_manual_override(false) leaves the breaker Closed with
\* failure_count = 0, success_count = 0 and last_state_change = now, whatever
\* the state before; set_manual_override(true) sets ManualOverride and leaves
\* the counters (and every other field) as they were.
C18_ManualOverrideEffect ==
    [][ cbCall'.op = "set_manual_override" =>
          IF cbCall'.enabled
          THEN cb' = [cb EXCEPT !.state = "ManualOverride"]
          ELSE /\ cb'.state = "Closed"
               /\ cb'.failure_count = 0
               /\ cb'.success_count = 0
               /\ cb'.last_state_change = now' ]_vars

\* C18's case: the override has just been enabled on a breaker whose window
\* holds failures and successes, some time after its last change of state.
C18_Witness ==
    /\ cbCall.op = "set_manual_override"
    /\ cbCall.enabled
    /\ cb.state = "ManualOverride"
    /\ cb.failure_count > 0 /\ cb.success_count > 0
    /\ cb.last_state_change < now

\* C19: an accepted execute_retry_attempt whose attempt fails (a failure reason
\* is added) leaves the session, when current_attempt < max_attempts, Scheduled
\* with a next_retry_at computed from the present time and the manager's
\* active_retry_sessions and failed_retries as they were; when
\* current_attempt = max_attempts, it leaves the status Failed, failed_retries
\* one higher and active_retry_sessions one lower.
C19_FailedAttemptReschedulesOrFails ==
    [][ \A a \in DOMAIN sessions :
          ( /\ retryCall' = [op |-> "execute_retry_attempt", session |-> a, result |-> "Ok"]
            /\ Len(sessions'[a].failure_reasons) > Len(sessions[a].failure_reasons) )
          => LET s == sessions'[a] IN
             IF s.current_attempt < s.retry_config.max_attempts
             THEN /\ s.status = "Scheduled"
                  /\ s.next_retry_at > now'
                  /\ s.next_retry_at > sessions[a].next_retry_at
                  /\ mgr'.active_retry_sessions = mgr.active_retry_sessions
                  /\ mgr'.failed_retries = mgr.failed_retries
             ELSE /\ s.current_attempt = s.retry_config.max_attempts
                  /\ s.status = "Failed"
                  /\ mgr'.failed_retries = mgr.failed_retries + 1
                  /\ mgr'.active_retry_sessions = mgr.active_retry_sessions - 1 ]_vars

\* C19's case: a session has failed its third and last attempt, after two
\* failed attempts that put it back to Scheduled.
C19_Witness ==
    \E a \in DOMAIN sessions :
        /\ retryCall = [op |-> "execute_retry_attempt", session |-> a, result |-> "Ok"]
        /\ sessions[a].status = "Failed"
        /\ sessions[a].current_attempt = 3
        /\ sessions[a].retry_config.max_attempts = 3
        /\ Len(delays[a]) = 3
        /\ mgr.failed_retries = 1

\* C20: an accepted execute_retry_attempt whose attempt succeeds (no failure
\* reason is added) leaves the status Successful with successful_tx_signature
\* set, successful_retries one higher and active_retry_sessions one lower; and
\* every execute_retry_attempt or cancel_retry_session on a Successful session
\* is refused and changes neither the session nor the manager.
C20_SuccessIsFinal ==
    [][ \A a \in DOMAIN sessions :
          /\ ( /\ retryCall' = [op |-> "execute_retry_attempt", session |-> a, result |-> "Ok"]
               /\ Len(sessions'[a].failure_reasons) = Len(sessions[a].failure_reasons) )
             => /\ sessions'[a].status = "Successful"
                /\ sessions'[a].successful_tx_signature # None
                /\ mgr'.successful_retries = mgr.successful_retries + 1
                /\ mgr'.active_retry_sessions = mgr.active_retry_sessions - 1
          /\ ( /\ sessions[a].status = "Successful"
               /\ retryCall'.op \in {"execute_retry_attempt", "cancel_retry_session"}
               /\ retryCall'.session = a )
             => /\ retryCall'.result = "InvalidTransferStatus"
                /\ sessions'[a] = sessions[a]
                /\ mgr' = mgr ]_vars

\* C20's case: a cancel_retry_session has just been refused on a session that
\* succeeded at its second attempt.
C20_Witness ==
    \E a \in DOMAIN sessions :
        /\ retryCall = [op |-> "cancel_retry_session", session |-> a,
                        result |-> "InvalidTransferStatus"]
        /\ sessions[a].status = "Successful"
        /\ sessions[a].successful_tx_signature # None
        /\ sessions[a].current_attempt = 2
        /\ mgr.successful_retries = 1

\* C21: every accepted execute_retry_attempt, whether its attempt succeeds or
\* fails, strictly increases the session's total_compute_units and
\* total_fees_spent and adds one to the manager's total_retry_attempts; and as
\* long as the session account is not filled anew by schedule_retry, no step
\* decreases these totals.
C21_AttemptsAccrueUsage ==
    [][ /\ mgr'.total_retry_attempts >= mgr.total_retry_attempts
        /\ \A a \in DOMAIN sessions :
              /\ retryCall' = [op |-> "execute_retry_attempt", session |-> a, result |-> "Ok"]
                 => /\ sessions'[a].total_compute_units > sessions[a].total_compute_units
                    /\ sessions'[a].total_fees_spent > sessions[a].total_fees_spent
                    /\ mgr'.total_retry_attempts = mgr.total_retry_attempts + 1
              /\ ~(retryCall'.op = "schedule_retry" /\ retryCall'.session = a)
                 => /\ sessions'[a].total_compute_units >= sessions[a].total_compute_units
                    /\ sessions'[a].total_fees_spent >= sessions[a].total_fees_spent ]_vars

\* C21's case: a session has made a failed and then a successful attempt, and
\* holds the usage of both.
C21_Witness ==
    \E a \in DOMAIN sessions :
        /\ retryCall = [op |-> "execute_retry_attempt", session |-> a, result |-> "Ok"]
        /\ sessions[a].current_attempt = 2
        /\ sessions[a].status = "Successful"
        /\ sessions[a].total_compute_units = 50000 + 180000
        /\ sessions[a].total_fees_spent = 2000 + 5000
        /\ mgr.total_retry_attempts >= 2

\* C22: cancel_retry_session is accepted exactly when the session is Scheduled
\* or Paused; accepted, it sets the status to Cancelled, takes one off
\* active_retry_sessions and changes nothing else in the session or the
\* manager; refused, it returns InvalidTransferStatus and changes nothing.
C22_CancelIsPureTransition ==
    [][ \A a \in DOMAIN sessions :
          ( retryCall'.op = "cancel_retry_session" /\ retryCall'.session = a )
          => IF sessions[a].status \in {"Scheduled", "Paused"}
             THEN /\ retryCall'.result = "Ok"
                  /\ sessions' = [sessions EXCEPT ![a].status = "Cancelled"]
                  /\ mgr' = [mgr EXCEPT !.active_retry_sessions = @ - 1]
             ELSE /\ retryCall'.result = "InvalidTransferStatus"
                  /\ sessions' = sessions
                  /\ mgr' = mgr ]_vars

\* C22's case: a session has been cancelled after a failed attempt; it keeps
\* the attempt's count, reasons and usage.
C22_Witness ==
    \E a \in DOMAIN sessions :
        /\ retryCall = [op |-> "cancel_retry_session", session |-> a, result |-> "Ok"]
        /\ sessions[a].status = "Cancelled"
        /\ sessions[a].current_attempt = 1
        /\ Len(sessions[a].failure_reasons) = 2
        /\ sessions[a].total_fees_spent = 2000
        /\ mgr.total_retry_attempts >= 1

\* C23: every recovery session has attempts_made <= max_attempts and as many
\* actions_taken as attempts_made; an execute_recovery_attempt on a session
\* that is not InProgress, or whose attempts_made = max_attempts, fails and
\* changes neither the session nor the manager.
C23_AttemptsBoundedAndRecorded ==
    /\ [](\A a \in DOMAIN rsessions :
             /\ rsessions[a].attempts_made <= rsessions[a].max_attempts
             /\ Len(rsessions[a].actions_taken) = rsessions[a].attempts_made)
    /\ [][ \A a \in DOMAIN rsessions :
             ( /\ recCall'.op = "execute_recovery_attempt"
               /\ recCall'.session = a
               /\ \/ rsessions[a].status # "InProgress"
                  \/ rsessions[a].attempts_made = rsessions[a].max_attempts )
             => /\ recCall'.result = "InvalidTransferStatus"
                /\ rsessions' = rsessions
                /\ rmgr' = rmgr ]_vars

\* C23's case: an attempt has just been refused on a session that made all
\* its three attempts, each recorded.
C23_Witness ==
    \E a \in DOMAIN rsessions :
        /\ recCall = [op |-> "execute_recovery_attempt", session |-> a,
                      result |-> "InvalidTransferStatus"]
        /\ rsessions[a].attempts_made = 3
        /\ rsessions[a].max_attempts = 3
        /\ Len(rsessions[a].actions_taken) = 3

\* C24: the max_attempts of a session is between 1 and 5 when the manager is
\* in normal mode, and is min(2 x the normal value for its error type, 10)
\* when the manager is in aggressive mode; for every error type.
C24_MaxAttemptsRange ==
    LET normal(error_type) ==
            calculate_max_attempts([rmgr EXCEPT !.aggressive_mode = FALSE], error_type)
    IN  /\ \A error_type \in ErrorTypes :
              /\ normal(error_type) \in 1..5
              /\ calculate_max_attempts([rmgr EXCEPT !.aggressive_mode = TRUE], error_type)
                    = Min(2 * normal(error_type), 10)
        /\ \A a \in DOMAIN rsessions :
              rsessions[a].max_attempts =
                  IF rmgr.aggressive_mode
                  THEN Min(2 * normal(rsessions[a].original_error), 10)
                  ELSE normal(rsessions[a].original_error)

\* C24's case: a session initiated in aggressive mode for a NetworkTimeout
\* has max_attempts 10.
C24_Witness ==
    \E a \in DOMAIN rsessions :
        /\ rmgr.aggressive_mode
        /\ rsessions[a].original_error = "NetworkTimeout"
        /\ rsessions[a].max_attempts = 10

\* C25: a session initiated for a SecurityViolation has the ManualIntervention
\* strategy, no execute_recovery_attempt on it returns success, and it is
\* never Successful nor finalized as Failed with an outcome: after its
\* attempt it rests in RequiresManualIntervention, in normal and in
\* aggressive mode.
C25_SecurityViolationNeedsManualIntervention ==
    \A a \in DOMAIN rsessions :
        rsessions[a].original_error = "SecurityViolation"
        => /\ rsessions[a].recovery_strategy = "ManualIntervention"
           /\ (recCall.op = "execute_recovery_attempt" /\ recCall.session = a)
                 => recCall.result # "Ok(true)"
           /\ rsessions[a].status =
                 IF rsessions[a].attempts_made = 0 THEN "InProgress"
                 ELSE "RequiresManualIntervention"
           /\ rsessions[a].outcome = None

\* C26: with the program not paused, batch_verify_signatures fails with
\* InvalidMessageFormat when the arrays are empty, when their lengths differ,
\* or when they hold more than 10 entries; otherwise it succeeds exactly when
\* every entry recovers to the authority's address, and fails with the error
\* of an entry that does not; it modifies no account.
C26_BatchVerifyFormatAndVerdict ==
    [][ (msgCall'.op = "batch_verify_signatures" /\ ~config.is_paused)
        => LET recovered == msgCall'.recovered
               n == Len(recovered)
               verifies(i) == /\ recovered[i] # None
                              /\ recovered[i][1] = pubkey_to_eth_address(config.tss_authority)
           IN  /\ UNCHANGED <<config, nft, transfers>>
               /\ IF \/ n = 0
                     \/ n # msgCall'.signatures_len
                     \/ n # msgCall'.recovery_ids_len
                     \/ n > 10
                  THEN msgCall'.result = "InvalidMessageFormat"
                  ELSE /\ msgCall'.result = "Ok" <=> \A i \in 1..n : verifies(i)
                       /\ msgCall'.result
                            \in {"Ok", "InvalidTssSignature", "PublicKeyRecoveryFailed"} ]_vars

\* C27: verify_ecdsa_signature gives Ok(true) exactly when recovery succeeds
\* and the recovered address is the expected signer, Ok(false) on a mismatch
\* and the PublicKeyRecoveryFailed error when recovery fails; verify_signature
\* returns Ok exactly when the program is not paused, the authority is
\* configured and the verdict is true, rejects a mismatch with
\* InvalidTssSignature, and modifies no account.
C27_VerdictAndInstruction ==
    [][ /\ \A recovered \in Recovered, expected_signer \in 0..2 :
              LET verdict == verify_ecdsa_signature(recovered, expected_signer) IN
              /\ verdict.ok <=> recovered # None
              /\ verdict.ok => (verdict.is_valid <=> recovered[1] = expected_signer)
        /\ msgCall'.op = "verify_signature"
           => LET recovered == msgCall'.recovered
                  expected == pubkey_to_eth_address(config.tss_authority)
                  configured == ~config.is_paused /\ config.tss_authority # DefaultPubkey
              IN  /\ UNCHANGED <<config, nft, transfers>>
                  /\ msgCall'.result = "Ok"
                       <=> (configured /\ recovered # None /\ recovered[1] = expected)
                  /\ (configured /\ recovered # None /\ recovered[1] # expected)
                       => msgCall'.result = "InvalidTssSignature"
                  /\ (configured /\ recovered = None)
                       => msgCall'.result = "PublicKeyRecoveryFailed" ]_vars

\* C27's case: verify_signature has just rejected, with InvalidTssSignature, a
\* signature that recovers to an address other than the configured authority's.
C27_Witness ==
    /\ msgCall.op = "verify_signature"
    /\ msgCall.result = "InvalidTssSignature"
    /\ ~config.is_paused
    /\ config.tss_authority # DefaultPubkey
    /\ msgCall.recovered # None
    /\ msgCall.recovered[1] # pubkey_to_eth_address(config.tss_authority)

\* C28: after every analyze_operation the persistent risk_score is
\* floor((70 x the previous risk_score + 30 x the call's instantaneous score)
\* / 100), and the instantaneous and the persistent score are within 0..1000.
C28_RiskScoreMovingAverage ==
    /\ [](feng.risk_score \in 0..1000)
    /\ [][ fraudCall'.op = "analyze_operation"
           => /\ fraudCall'.result.risk_score \in 0..1000
              /\ feng'.risk_score =
                    (70 * feng.risk_score + 30 * fraudCall'.result.risk_score) \div 100 ]_vars

\* C28's case: an analysis has moved a nonzero persistent score towards a
\* different instantaneous score.
C28_Witness ==
    /\ fraudCall.op = "analyze_operation"
    /\ feng.total_operations >= 3
    /\ feng.risk_score > 0
    /\ fraudCall.result.risk_score > feng.risk_score + 50

\* C29: operation_index is in 0..19 and equals total_operations mod 20; each
\* analyze_operation writes only the slot operation_index pointed at, so the
\* buffer holds, in ring order, exactly the fingerprints of the
\* min(n, 20) most recent operations, the other slots being untouched.
C29_RingBufferHoldsMostRecent ==
    /\ [](/\ feng.operation_index \in 0..19
          /\ feng.operation_index = feng.total_operations % 20
          /\ Len(feng.recent_operations) = 20
          /\ Len(analyzed) = Min(feng.total_operations, 20)
          /\ \A k \in 1..Len(analyzed) :
                feng.recent_operations[
                    ((feng.total_operations - Len(analyzed) + k - 1) % 20) + 1] = analyzed[k]
          /\ \A i \in (feng.total_operations + 1)..20 :
                feng.recent_operations[i] = DefaultOperationSignature)
    /\ [][ fraudCall'.op = "analyze_operation"
           => \A i \in 1..20 :
                 i # feng.operation_index + 1
                 => feng'.recent_operations[i] = feng.recent_operations[i] ]_vars

\* C29's case: 22 operations were analyzed, the last two at a later time than
\* the eighteen before them, and the two oldest have been overwritten.
C29_Witness ==
    /\ feng.total_operations = 22
    /\ feng.operation_index = 2
    /\ feng.recent_operations[2].timestamp > feng.recent_operations[3].timestamp
    /\ feng.recent_operations[20].timestamp = feng.recent_operations[3].timestamp

C31_RoundAmountsScoreAtLeast100 ==
    fraudCall.op = "analyze_operation"
    => /\ fraudCall.factors[3] <= 300
       /\ U64Mod(fraudCall.operation.value, 1000000) = 0 => fraudCall.factors[3] >= 100

\* C31, amended: in every analysis the value-pattern sub-score is at most 300,
\* and it is at least 100 when the amount is positive and divisible by
\* 1,000,000.
C31_PositiveRoundAmountsScoreAtLeast100 ==
    fraudCall.op = "analyze_operation"
    => /\ fraudCall.factors[3] <= 300
       /\ ( /\ U64Mod(fraudCall.operation.value, 1000000) = 0
            /\ fraudCall.operation.value # U64Zero )
          => fraudCall.factors[3] >= 100

\* C31's case: an amount of 2,000,000,000,000, both round and above the
\* ceiling, was analyzed and scored exactly the cap.
C31_Witness ==
    /\ fraudCall.op = "analyze_operation"
    /\ U64Mod(fraudCall.operation.value, 1000000) = 0
    /\ U64Gt(fraudCall.operation.value, U64Trillion)
    /\ fraudCall.factors[3] = 300

\* C32 as written: no accessor call modifies an account, and an accessor
\* called again, no operation of its account in between, returns the same
\* result.
C32_AccessorsRepeatTheirResult ==
    /\ [][ ( \/ cbCall'.op = "get_health_metrics" /\ cbCall' # cbCall
             \/ retryCall'.op = "get_retry_stats" /\ retryCall' # retryCall
             \/ recCall'.op = "get_recovery_stats" /\ recCall' # recCall )
           => UNCHANGED <<cb, mgr, sessions, rmgr, rsessions>> ]_vars
    /\ [](cbCall.op = "get_health_metrics" /\ cbCall.previous # None
            => cbCall.value = cbCall.previous[1].value)
    /\ [](retryCall.op = "get_retry_stats" /\ retryCall.previous # None
            => retryCall.value = retryCall.previous[1].value)
    /\ [](recCall.op = "get_recovery_stats" /\ recCall.previous # None
            => recCall.value = recCall.previous[1].value)

\* C32, amended: no accessor call modifies an account; get_retry_stats and
\* get_recovery_stats called again, no operation of their account in between,
\* return the same result; get_health_metrics called again returns the same
\* state, success rate and counts, while its time_in_current_state is the
\* clock minus last_state_change and so grows by the time between the calls.
C32_AccessorsRepeatUpToTheClock ==
    /\ [][ ( \/ cbCall'.op = "get_health_metrics" /\ cbCall' # cbCall
             \/ retryCall'.op = "get_retry_stats" /\ retryCall' # retryCall
             \/ recCall'.op = "get_recovery_stats" /\ recCall' # recCall )
           => UNCHANGED <<cb, mgr, sessions, rmgr, rsessions>> ]_vars
    /\ [](cbCall.op = "get_health_metrics"
            => /\ cbCall.value.time_in_current_state = cbCall.at - cb.last_state_change
               /\ cbCall.previous # None
                  => LET before == cbCall.previous[1] IN
                     /\ [cbCall.value EXCEPT !.time_in_current_state = 0]
                          = [before.value EXCEPT !.time_in_current_state = 0]
                     /\ cbCall.value.time_in_current_state
                          = before.value.time_in_current_state + (cbCall.at - before.at))
    /\ [](retryCall.op = "get_retry_stats" /\ retryCall.previous # None
            => retryCall.value = retryCall.previous[1].value)
    /\ [](recCall.op = "get_recovery_stats" /\ recCall.previous # None
            => recCall.value = recCall.previous[1].value)

\* C32's case: the health metrics were read twice, a second apart, of a breaker
\* that had changed state after its window began and had counted operations.
C32_Witness ==
    /\ cbCall.op = "get_health_metrics"
    /\ cbCall.previous # None
    /\ cbCall.at = cbCall.previous[1].at + 1
    /\ cb.last_state_change > cb.window_start
    /\ cbCall.value.total_operations > 0

\* C33: burn_and_transfer by the owner of an unlocked NFT, on a program that
\* is not paused, to a supported chain, the token account holding the token and
\* the gateway accepting the call, succeeds when the gas limit is within
\* [21000, 10000000] and the recipient is 20 or 32 bytes long; with a gas limit
\* outside that range or a recipient of another length it is rejected, the NFT
\* stays as it was and no transfer record is created.
C33_OutboundBoundary ==
    [][ msgCall'.op = "burn_and_transfer"
        => LET call == msgCall'
               inRange == call.gas_limit >= 21000 /\ call.gas_limit <= 10000000
               goodLen == Len(call.recipient) \in {20, 32}
           IN  /\ ( /\ ~config.is_paused
                    /\ ~nft[call.mint].is_locked
                    /\ nft[call.mint].owner = call.owner
                    /\ nft[call.mint].token_amount[call.owner] >= 1
                    /\ validate_chain_id(call.destination_chain_id)
                    /\ <<call.mint, config.nonce>> \notin DOMAIN transfers
                    /\ config.nonce < MaxNonce
                    /\ call.gatewayOk
                    /\ inRange /\ goodLen )
                  => /\ call.result = "Ok"
                     /\ nft'[call.mint].is_locked
               /\ ~(inRange /\ goodLen)
                  => /\ call.result # "Ok"
                     /\ nft' = nft
                     /\ transfers' = transfers ]_vars

\* C34: a check_operation_allowed, record_success or record_failure made when
\* now - window_start >= failure_window sets window_start to now and works on
\* zeroed counters (afterwards they hold at most the one operation this call
\* counted, and a check of a Closed breaker is admitted whatever the old
\* counts were); made earlier, it leaves window_start as it was; no other step
\* changes window_start; the counters are never negative.
C34_WindowRestartsLazily ==
    /\ [](cb.failure_count >= 0 /\ cb.success_count >= 0)
    /\ [][ LET op == cbCall'.op
               counting == op \in {"check_operation_allowed", "record_success",
                                   "record_failure"}
               expired == now - cb.window_start >= cb.config.failure_window
           IN  /\ (counting /\ expired)
                  => /\ cb'.window_start = now
                     /\ cb'.failure_count = (IF op = "record_failure" THEN 1 ELSE 0)
                     /\ cb'.success_count \in
                           (IF op = "record_success"
                            THEN (IF cb.state = "HalfOpen" /\ cb'.state = "Closed"
                                  THEN {0} ELSE {1})
                            ELSE {0})
                     /\ (op = "check_operation_allowed" /\ cb.state = "Closed")
                        => cbCall'.result = "Ok" /\ cb'.state = "Closed"
               /\ (counting /\ ~expired) => cb'.window_start = cb.window_start
               /\ ~counting => cb'.window_start = cb.window_start ]_vars

\* C34's case: a failure reported to a Closed breaker exactly failure_window
\* seconds after the window began, an earlier failure of this Closed run
\* having been counted in the old window: the window restarts at now and
\* counts this failure alone.
C34_Witness ==
    /\ cbCall.op = "record_failure"
    /\ cb.state = "Closed"
    /\ now = cb.config.failure_window
    /\ cb.window_start = now
    /\ Len(closedFails) >= 2
    /\ cb.failure_count = 1

\* C35: hash_message feeds the hasher the same bytes for the same message,
\* and different bytes for two messages (recipients of 20 or 32 bytes) that
\* differ in nonce, chain id, recipient, amount or data.
C35_HashInputIsInjective ==
    ( /\ msgCall.op = "hash_message"
      /\ msgCall.previous # None
      /\ validate_recipient(msgCall.message.recipient)
      /\ validate_recipient(msgCall.previous[1].message.recipient) )
    => ( msgCall.hash = msgCall.previous[1].hash
         <=> msgCall.message = msgCall.previous[1].message )

\* C36: the scores reach the top recommendation: an analysis whose seven
\* sub-scores all stand at their caps (500, 500, 300, 100, 750, 300, 400) has
\* an instantaneous risk score above 900, the recommendation Block, and is
\* suspicious under the default threshold 750.
C36_CapsReachBlock ==
    ( /\ fraudCall.op = "analyze_operation"
      /\ feng.config = DefaultFraudConfig
      /\ fraudCall.factors = <<500, 500, 300, 100, 750, 300, 400>> )
    => /\ fraudCall.result.risk_score > 900
       /\ fraudCall.result.recommendation = "Block"
       /\ fraudCall.result.is_suspicious

\* Beside C36: whatever is analyzed, the instantaneous risk score stays at or
\* below 442, the weighted mean of the caps, so the recommendation is Allow or
\* Monitor and nothing is suspicious under a threshold of 442 or more.
C36_RiskScoreAtMostWeightedCaps ==
    fraudCall.op = "analyze_operation"
    => /\ fraudCall.result.risk_score <= 442
       /\ fraudCall.result.recommendation \in {"Allow", "Monitor"}
       /\ feng.config.risk_threshold >= 442 => ~fraudCall.result.is_suspicious

\* C37: in every state active_retry_sessions is the number of session accounts
\* whose status is Scheduled, InProgress or Paused, schedule_retry on an
\* account that is still active or already finalized included.
C37_ActiveCountMatchesSessions ==
    mgr.active_retry_sessions =
        Cardinality({a \in DOMAIN sessions :
                        sessions[a].status \in {"Scheduled", "InProgress", "Paused"}})

\* C38: last_state_change changes only in a step that changes the state; in
\* particular record_failure and record_success leave it alone while the
\* breaker stays Open, so a check_operation_allowed made on an Open breaker
\* min_open_duration or more after Open was entered is admitted and moves the
\* breaker to HalfOpen.
C38_StateClockMovesWithState ==
    [][ /\ cb'.last_state_change # cb.last_state_change => cb'.state # cb.state
        /\ ( /\ cb.state = "Open"
             /\ cbCall'.op = "check_operation_allowed"
             /\ now' - openEnteredAt >= cb.config.min_open_duration )
           => /\ cbCall'.result = "Ok"
              /\ cb'.state = "HalfOpen" ]_vars

\* C38, its consequence alone: a check made on an Open breaker
\* min_open_duration or more after Open was entered moves it to HalfOpen.
C38_OpenEndsAfterMinOpenDuration ==
    [][ ( /\ cb.state = "Open"
          /\ cbCall'.op = "check_operation_allowed"
          /\ now' - openEnteredAt >= cb.config.min_open_duration )
        => /\ cbCall'.result = "Ok"
           /\ cb'.state = "HalfOpen" ]_vars

\* C39: an NFT locked by a successful burn_and_transfer is unlocked again by
\* the program: on_revert calls going on, one of them is accepted, which sets
\* the transfer to Reverted and clears is_locked; and an on_revert on a
\* transfer whose status is not Processing is rejected and changes nothing.
C39_LockedNftIsUnlockedByRevert ==
    /\ \A mint \in Mints :
          nft[mint].is_locked
          ~> (msgCall.op = "on_revert" /\ msgCall.result = "Ok" /\ ~nft[mint].is_locked)
    /\ [][ ( /\ msgCall'.op = "on_revert"
             /\ \A seed \in DOMAIN transfers : transfers[seed].status # "Processing" )
           => /\ msgCall'.result # "Ok"
              /\ nft' = nft
              /\ transfers' = transfers ]_vars

\* Beside C39: no instruction leaves a transfer in a status other than
\* Initiated, no on_revert is ever accepted, and a locked NFT stays locked.
C39_LockIsPermanent ==
    /\ [](\A seed \in DOMAIN transfers : transfers[seed].status = "Initiated")
    /\ [](msgCall.op = "on_revert" => msgCall.result # "Ok")
    /\ [][ \A mint \in Mints : nft[mint].is_locked => nft'[mint].is_locked ]_vars

====
